---------------------------- MODULE Spec2Model ----------------------------
(***************************************************************************)
(* The local data store of the expense tracker: sanitizers and schema      *)
(* validation (lib/security.ts), the record store over localStorage        *)
(* (lib/storage.ts), the rate limiter (lib/security.ts), the CSV codec      *)
(* (lib/csv-utils.ts) and the settings screen's import handler.            *)
(*                                                                         *)
(* JavaScript values are modelled as follows.                              *)
(*   string     a sequence of one-character strings (BOM is one character) *)
(*   undefined  the value Undefined (only string-typed fields take it)     *)
(*   object     a function whose DOMAIN is the set of own keys; a key may  *)
(*              be present with the value Undefined                        *)
(*   UUID       a natural number drawn from the counter nextId             *)
(*   datetime   the clock value (ms) at which toISOString() was taken      *)
(***************************************************************************)
EXTENDS Integers, Sequences, FiniteSets, TLC

VARIABLES
    localStorage,     \* key -> parsed JSON value; DOMAIN = keys that are set
    operationCounts,  \* security.ts:133, the limiter's Map: kind -> {count, resetTime}
    now,              \* Date.now()
    nextId,           \* number of UUIDs crypto.randomUUID() has handed out
    currentPrefs,     \* useSettingsForm.ts:16, the settings form's state
    last,             \* the last call: its name, arguments, outcome and trace
    callLog,          \* the checkRateLimit calls made so far: <<kind, time, allowed>>
    steps,            \* number of calls made so far
    hammer,           \* the call a caller repeats within one window
    timezoneOffset,   \* Date.prototype.getTimezoneOffset(): UTC minus local time, in minutes
    categoryToDelete,          \* settings screen, useState: a category or null
    showDeleteCategoryDialog,  \* settings screen, useState: the delete dialog is open
    showMergeCategoryDialog,   \* settings screen, useState: the merge dialog is open
    tabs              \* browser tabs on the same localStorage: what each is doing

vars == <<localStorage, operationCounts, now, nextId, currentPrefs, last, callLog, steps, hammer,
          timezoneOffset, categoryToDelete, showDeleteCategoryDialog, showMergeCategoryDialog,
          tabs>>

\* what no operation of the store changes
environment ==
    <<timezoneOffset, categoryToDelete, showDeleteCategoryDialog, showMergeCategoryDialog,
      tabs>>

\* null, for a category
NoCategory == [null |-> TRUE]

\* the settings screen as it is mounted: no dialog open
InitDialogs ==
    /\ categoryToDelete = NoCategory
    /\ showDeleteCategoryDialog = FALSE
    /\ showMergeCategoryDialog = FALSE

Tabs == {1, 2}

\* a tab between two calls, with its own limiter Map.  added and targeted
\* record which ids its calls have added and which they have updated or
\* deleted.
IdleTab == [pc |-> "idle", counts |-> << >>, calls |-> 0, added |-> {}, targeted |-> {}]

InitTabs == tabs = [t \in Tabs |-> IdleTab]

\* a process running in UTC
InitEnvironment == timezoneOffset = 0 /\ InitDialogs /\ InitTabs

-----------------------------------------------------------------------------
(* Characters and strings *)

Undefined == <<"undefined">>

BOM == "BOM"

Digits == {"0", "1", "2", "3", "4", "5", "6", "7", "8", "9"}

UpperAlphabet ==
    <<"A", "B", "C", "D", "E", "F", "G", "H", "I", "J", "K", "L", "M",
      "N", "O", "P", "Q", "R", "S", "T", "U", "V", "W", "X", "Y", "Z">>

LowerAlphabet ==
    <<"a", "b", "c", "d", "e", "f", "g", "h", "i", "j", "k", "l", "m",
      "n", "o", "p", "q", "r", "s", "t", "u", "v", "w", "x", "y", "z">>

UpperLetters == {UpperAlphabet[i] : i \in 1..Len(UpperAlphabet)}

LowerLetters == {LowerAlphabet[i] : i \in 1..Len(LowerAlphabet)}

\* String.prototype.toLowerCase()
toLowerCase(s) ==
    [i \in 1..Len(s) |->
        IF s[i] \in UpperLetters
        THEN LowerAlphabet[CHOOSE k \in 1..Len(UpperAlphabet) : UpperAlphabet[k] = s[i]]
        ELSE s[i]]

\* /\s/ : JavaScript's white space, which includes U+FEFF
WhiteSpace == {" ", "\t", "\r", "\n", BOM}

\* /[<>\"'&]/
XssChars == {"<", ">", "\"", "'", "&"}

\* /[a-zA-Z0-9\s\-_]/
CategoryChars == UpperLetters \cup LowerLetters \cup Digits \cup WhiteSpace \cup {"-", "_"}

Min(a, b) == IF a < b THEN a ELSE b

\* String.prototype.slice(0, n)
Slice(s, n) == SubSeq(s, 1, Min(n, Len(s)))

RECURSIVE TrimStart(_)
TrimStart(s) ==
    IF s # <<>> /\ Head(s) \in WhiteSpace THEN TrimStart(Tail(s)) ELSE s

RECURSIVE TrimEnd(_)
TrimEnd(s) ==
    IF s # <<>> /\ s[Len(s)] \in WhiteSpace THEN TrimEnd(SubSeq(s, 1, Len(s) - 1)) ELSE s

\* String.prototype.trim()
Trim(s) == TrimEnd(TrimStart(s))

\* replace(/\s+/g, ' ')
RECURSIVE CollapseWhiteSpace(_)
CollapseWhiteSpace(s) ==
    IF s = <<>> THEN <<>>
    ELSE IF Head(s) \in WhiteSpace
         THEN <<" ">> \o CollapseWhiteSpace(TrimStart(s))
         ELSE <<Head(s)>> \o CollapseWhiteSpace(Tail(s))

\* a string repeated: n copies of the character c
Repeat(c, n) == [i \in 1..n |-> c]

\* JavaScript truthiness of a string-or-undefined value
Truthy(v) == v # Undefined /\ v # <<>>

\* obj.key, which is undefined when the key is not an own key
Get(obj, k) == IF k \in DOMAIN obj THEN obj[k] ELSE Undefined

\* { ...a, ...b }
Spread(a, b) == b @@ a

\* Body(value), with the value computed once
Bind(value, Body(_)) == CHOOSE result \in {Body(v) : v \in {value}} : TRUE

-----------------------------------------------------------------------------
(* lib/security.ts *)

TextMaxLength == 500
CategoryMaxLength == 50
PaymentMethodMaxLength == 50
AmountMaxCents == 100000000

sanitizeText(input, maxLength) ==
    IF input = Undefined THEN <<>>
    ELSE CollapseWhiteSpace(
             SelectSeq(Slice(Trim(input), maxLength), LAMBDA c : c \notin XssChars))

sanitizeCategory(category) ==
    IF category = Undefined THEN <<>>
    ELSE CollapseWhiteSpace(
             SelectSeq(Slice(Trim(category), CategoryMaxLength),
                       LAMBDA c : c \in CategoryChars))

\* the fields of an Expense that hold strings
StringFields == {"currency", "category", "note", "paidAt", "paymentMethod"}

IsUndefined(obj, k) == k \in StringFields /\ obj[k] = Undefined

\* /^[A-Z]{3}$/ with length(3)
IsCurrencyCode(v) ==
    v # Undefined /\ Len(v) = 3 /\ \A i \in 1..3 : v[i] \in UpperLetters

\* /^\d{4}-\d{2}-\d{2}$/
IsDateOnly(v) ==
    /\ v # Undefined
    /\ Len(v) = 10
    /\ \A i \in {1, 2, 3, 4, 6, 7, 9, 10} : v[i] \in Digits
    /\ v[5] = "-"
    /\ v[8] = "-"

\* z.string().max(n).optional() on the key k
OptionalStringOk(obj, k, n) ==
    k \notin DOMAIN obj \/ obj[k] = Undefined \/ Len(obj[k]) <= n

ExpenseSchema(e) ==
    /\ {"id", "amountCents", "currency", "category", "paidAt", "createdAt", "updatedAt"}
           \subseteq DOMAIN e
    /\ e.id \in Nat
    /\ e.amountCents \in Int /\ e.amountCents >= 1 /\ e.amountCents <= AmountMaxCents
    /\ IsCurrencyCode(e.currency)
    /\ e.category # Undefined /\ Len(e.category) >= 1 /\ Len(e.category) <= CategoryMaxLength
    /\ OptionalStringOk(e, "note", TextMaxLength)
    /\ IsDateOnly(e.paidAt)
    /\ OptionalStringOk(e, "paymentMethod", PaymentMethodMaxLength)
    /\ e.createdAt \in Nat
    /\ e.updatedAt \in Nat

\* a validation that looks at the first record only
validateExpenseDataFirstOnly(data) ==
    data = <<>> \/ ExpenseSchema(data[1])

validateExpenseData(data) ==
    \A i \in 1..Len(data) : ExpenseSchema(data[i])

\* /^\d{4}-\d{2}$/
IsYearMonth(v) ==
    /\ v # Undefined
    /\ Len(v) = 7
    /\ \A i \in {1, 2, 3, 4, 6, 7} : v[i] \in Digits
    /\ v[5] = "-"

BudgetSchema(b) ==
    /\ {"id", "yearMonth", "limitCents"} \subseteq DOMAIN b
    /\ b.id \in Nat
    /\ IsYearMonth(b.yearMonth)
    /\ OptionalStringOk(b, "category", CategoryMaxLength)
    /\ b.limitCents \in Int /\ b.limitCents >= 0 /\ b.limitCents <= AmountMaxCents

validateBudgetData(data) ==
    \A i \in 1..Len(data) : BudgetSchema(data[i])

\* JSON.stringify followed by JSON.parse: keys whose value is undefined vanish
JsonObject(obj) ==
    [k \in {key \in DOMAIN obj : ~IsUndefined(obj, key)} |-> obj[k]]

Json(collection) == [i \in 1..Len(collection) |-> JsonObject(collection[i])]

\* null when the key is not set
secureLocalStorageGet(ls, key) ==
    IF key \in DOMAIN ls THEN [isNull |-> FALSE, value |-> ls[key]]
    ELSE [isNull |-> TRUE, value |-> <<>>]

\* setItem throws only when the quota is exceeded, which the collections
\* of this model stay far below: the write succeeds
secureLocalStorageSet(ls, key, value) ==
    [success |-> TRUE, ls |-> (key :> Json(value)) @@ ls]

DefaultMaxOps == 100
DefaultWindowMs == 60000

\* a counter off by one: the call that finds count = maxOps is still allowed
checkRateLimitOffByOne(counts, time, operation, maxOps, windowMs) ==
    IF operation \notin DOMAIN counts \/ time > counts[operation].resetTime
    THEN [allowed |-> TRUE,
          counts |-> (operation :> [count |-> 1, resetTime |-> time + windowMs]) @@ counts]
    ELSE IF counts[operation].count > maxOps
         THEN [allowed |-> FALSE, counts |-> counts]
         ELSE [allowed |-> TRUE,
               counts |-> [counts EXCEPT ![operation].count = @ + 1]]

\* a window that ends one millisecond early: time = resetTime already resets
checkRateLimitEarlyReset(counts, time, operation, maxOps, windowMs) ==
    IF operation \notin DOMAIN counts \/ time >= counts[operation].resetTime
    THEN [allowed |-> TRUE,
          counts |-> (operation :> [count |-> 1, resetTime |-> time + windowMs]) @@ counts]
    ELSE IF counts[operation].count >= maxOps
         THEN [allowed |-> FALSE, counts |-> counts]
         ELSE [allowed |-> TRUE,
               counts |-> [counts EXCEPT ![operation].count = @ + 1]]

checkRateLimit(counts, time, operation, maxOps, windowMs) ==
    IF operation \notin DOMAIN counts \/ time > counts[operation].resetTime
    THEN [allowed |-> TRUE,
          counts |-> (operation :> [count |-> 1, resetTime |-> time + windowMs]) @@ counts]
    ELSE IF counts[operation].count >= maxOps
         THEN [allowed |-> FALSE, counts |-> counts]
         ELSE [allowed |-> TRUE,
               counts |-> [counts EXCEPT ![operation].count = @ + 1]]

-----------------------------------------------------------------------------
(* lib/storage.ts.  A handler is an operator from the state it reads        *)
(* (st.ls localStorage, st.counts the limiter's Map, st.now the clock,      *)
(* st.nextId the UUID counter) to its outcome: error names the exception    *)
(* thrown ("none" when it returns), returned the value returned, trace the  *)
(* limiter consultations and storage accesses in the order they happen.     *)

EXPENSES_KEY == "expenses"
BUDGETS_KEY == "budgets"

SaveExpensesMaxOps == 50
AddExpenseMaxOps == 100
UpdateExpenseMaxOps == 100

NoValue == [none |-> TRUE]

\* a read that filters: the records that pass the schema are returned
getExpensesValidSubset(ls) ==
    LET stored == secureLocalStorageGet(ls, EXPENSES_KEY)
    IN  IF stored.isNull THEN <<>>
        ELSE SelectSeq(stored.value, ExpenseSchema)

getExpenses(ls) ==
    LET stored == secureLocalStorageGet(ls, EXPENSES_KEY)
    IN  IF stored.isNull THEN <<>>
        ELSE IF ~validateExpenseData(stored.value) THEN <<>>
        ELSE stored.value

\* the validation skipped: whatever the caller passes is written
saveExpensesUnvalidated(st, expenses) ==
    LET rl == checkRateLimit(st.counts, st.now, "saveExpenses", SaveExpensesMaxOps,
                             DefaultWindowMs)
        set == secureLocalStorageSet(st.ls, EXPENSES_KEY, expenses)
    IN  IF ~rl.allowed
        THEN [error |-> "rate-limit", ls |-> st.ls, counts |-> rl.counts,
              trace |-> <<"limit:saveExpenses">>]
        ELSE [error |-> "none", ls |-> set.ls, counts |-> rl.counts,
              trace |-> <<"limit:saveExpenses", "write:expenses">>]

saveExpenses(st, expenses) ==
    LET rl == checkRateLimit(st.counts, st.now, "saveExpenses", SaveExpensesMaxOps,
                             DefaultWindowMs)
        set == secureLocalStorageSet(st.ls, EXPENSES_KEY, expenses)
    IN  IF ~rl.allowed
        THEN [error |-> "rate-limit", ls |-> st.ls, counts |-> rl.counts,
              trace |-> <<"limit:saveExpenses">>]
        ELSE IF ~validateExpenseData(expenses)
        THEN [error |-> "validation", ls |-> st.ls, counts |-> rl.counts,
              trace |-> <<"limit:saveExpenses">>]
        ELSE IF ~set.success
        THEN [error |-> "storage", ls |-> st.ls, counts |-> rl.counts,
              trace |-> <<"limit:saveExpenses", "write:expenses">>]
        ELSE [error |-> "none", ls |-> set.ls, counts |-> rl.counts,
              trace |-> <<"limit:saveExpenses", "write:expenses">>]

\* a variant that stores the new record alone
addExpenseAlone(st, expense) ==
    LET rl == checkRateLimit(st.counts, st.now, "addExpense", AddExpenseMaxOps,
                             DefaultWindowMs)
        newExpense ==
            Spread(expense, [id |-> st.nextId + 1, createdAt |-> st.now, updatedAt |-> st.now])
        saved == saveExpenses([st EXCEPT !.counts = rl.counts], <<newExpense>>)
    IN  [error |-> saved.error,
         returned |-> IF saved.error = "none" THEN newExpense ELSE NoValue,
         ls |-> saved.ls, counts |-> saved.counts, nextId |-> st.nextId + 1,
         trace |-> <<"limit:addExpense", "read:expenses">> \o saved.trace]

addExpense(st, expense) ==
    LET rl == checkRateLimit(st.counts, st.now, "addExpense", AddExpenseMaxOps,
                             DefaultWindowMs)
        expenses == getExpenses(st.ls)
        sanitizedExpense ==
            Spread(expense,
                   [category |-> sanitizeCategory(Get(expense, "category")),
                    note |-> IF Truthy(Get(expense, "note"))
                             THEN sanitizeText(expense.note, TextMaxLength)
                             ELSE Undefined,
                    paymentMethod |-> IF Truthy(Get(expense, "paymentMethod"))
                                      THEN sanitizeText(expense.paymentMethod,
                                                        PaymentMethodMaxLength)
                                      ELSE Undefined])
        newExpense ==
            Spread(sanitizedExpense,
                   [id |-> st.nextId + 1, createdAt |-> st.now, updatedAt |-> st.now])
        saved == saveExpenses([st EXCEPT !.counts = rl.counts],
                              Append(expenses, newExpense))
    IN  IF ~rl.allowed
        THEN [error |-> "rate-limit", returned |-> NoValue, ls |-> st.ls,
              counts |-> rl.counts, nextId |-> st.nextId,
              trace |-> <<"limit:addExpense">>]
        ELSE [error |-> saved.error,
              returned |-> IF saved.error = "none" THEN newExpense ELSE NoValue,
              ls |-> saved.ls, counts |-> saved.counts, nextId |-> st.nextId + 1,
              trace |-> <<"limit:addExpense", "read:expenses">> \o saved.trace]

\* findIndex: the first index whose record has the id, 0 for -1
FindIndex(expenses, id) ==
    IF \E i \in 1..Len(expenses) : expenses[i].id = id
    THEN CHOOSE i \in 1..Len(expenses) :
             /\ expenses[i].id = id
             /\ \A j \in 1..(i - 1) : expenses[j].id # id
    ELSE 0

\* a variant that saves the collection again when the id is not found
updateExpenseSaveMissing(st, id, updates) ==
    LET rl == checkRateLimit(st.counts, st.now, "updateExpense", UpdateExpenseMaxOps,
                             DefaultWindowMs)
        expenses == getExpenses(st.ls)
        saved == saveExpenses([st EXCEPT !.counts = rl.counts], expenses)
    IN  IF ~rl.allowed
        THEN [error |-> "rate-limit", returned |-> NoValue, ls |-> st.ls,
              counts |-> rl.counts, trace |-> <<"limit:updateExpense">>]
        ELSE [error |-> saved.error, returned |-> [null |-> TRUE], ls |-> saved.ls,
              counts |-> saved.counts,
              trace |-> <<"limit:updateExpense", "read:expenses">> \o saved.trace]

updateExpense(st, id, updates) ==
    LET rl == checkRateLimit(st.counts, st.now, "updateExpense", UpdateExpenseMaxOps,
                             DefaultWindowMs)
        expenses == getExpenses(st.ls)
        index == FindIndex(expenses, id)
        sanitizedUpdates ==
            Spread(updates,
                   [category |-> IF Truthy(Get(updates, "category"))
                                 THEN sanitizeCategory(updates.category)
                                 ELSE Undefined,
                    note |-> IF Truthy(Get(updates, "note"))
                             THEN sanitizeText(updates.note, TextMaxLength)
                             ELSE Undefined,
                    paymentMethod |-> IF Truthy(Get(updates, "paymentMethod"))
                                      THEN sanitizeText(updates.paymentMethod,
                                                        PaymentMethodMaxLength)
                                      ELSE Undefined])
        updatedExpense ==
            Spread(Spread(expenses[index], sanitizedUpdates), [updatedAt |-> st.now])
        saved == saveExpenses([st EXCEPT !.counts = rl.counts],
                              [expenses EXCEPT ![index] = updatedExpense])
    IN  IF ~rl.allowed
        THEN [error |-> "rate-limit", returned |-> NoValue, ls |-> st.ls,
              counts |-> rl.counts, trace |-> <<"limit:updateExpense">>]
        ELSE IF index = 0
        THEN [error |-> "none", returned |-> [null |-> TRUE], ls |-> st.ls,
              counts |-> rl.counts,
              trace |-> <<"limit:updateExpense", "read:expenses">>]
        ELSE [error |-> saved.error,
              returned |-> IF saved.error = "none" THEN updatedExpense ELSE NoValue,
              ls |-> saved.ls, counts |-> saved.counts,
              trace |-> <<"limit:updateExpense", "read:expenses">> \o saved.trace]

deleteExpense(st, id) ==
    LET expenses == getExpenses(st.ls)
        filtered == SelectSeq(expenses, LAMBDA e : e.id # id)
        saved == saveExpenses(st, filtered)
    IN  IF Len(filtered) = Len(expenses)
        THEN [error |-> "none", returned |-> FALSE, ls |-> st.ls, counts |-> st.counts,
              trace |-> <<"read:expenses">>]
        ELSE [error |-> saved.error,
              returned |-> IF saved.error = "none" THEN TRUE ELSE NoValue,
              ls |-> saved.ls, counts |-> saved.counts,
              trace |-> <<"read:expenses">> \o saved.trace]

getBudgets(ls) ==
    LET stored == secureLocalStorageGet(ls, BUDGETS_KEY)
    IN  IF stored.isNull THEN <<>>
        ELSE IF ~validateBudgetData(stored.value) THEN <<>>
        ELSE stored.value

\* a variant that writes before it validates
saveBudgetsWriteFirst(st, budgets) ==
    LET set == secureLocalStorageSet(st.ls, BUDGETS_KEY, budgets)
    IN  IF ~set.success
        THEN [error |-> "storage", ls |-> st.ls, trace |-> <<"write:budgets">>]
        ELSE IF ~validateBudgetData(budgets)
        THEN [error |-> "validation", ls |-> set.ls, trace |-> <<"write:budgets">>]
        ELSE [error |-> "none", ls |-> set.ls, trace |-> <<"write:budgets">>]

saveBudgets(st, budgets) ==
    LET set == secureLocalStorageSet(st.ls, BUDGETS_KEY, budgets)
    IN  IF ~validateBudgetData(budgets)
        THEN [error |-> "validation", ls |-> st.ls, trace |-> <<>>]
        ELSE IF ~set.success
        THEN [error |-> "storage", ls |-> st.ls, trace |-> <<"write:budgets">>]
        ELSE [error |-> "none", ls |-> set.ls, trace |-> <<"write:budgets">>]

\* a lookup that never finds the pair
FindBudgetIndexNotFound(budgets, yearMonth, category) == 0

\* findIndex over the budgets by (yearMonth, category), 0 for -1
FindBudgetIndex(budgets, yearMonth, category) ==
    LET Hit(i) == budgets[i].yearMonth = yearMonth /\ Get(budgets[i], "category") = category
    IN  IF \E i \in 1..Len(budgets) : Hit(i)
        THEN CHOOSE i \in 1..Len(budgets) : Hit(i) /\ \A j \in 1..(i - 1) : ~Hit(j)
        ELSE 0

\* a replacement that mints a new id instead of keeping the stored one
setBudgetFreshId(st, yearMonth, limitCents, category) ==
    LET budgets == getBudgets(st.ls)
        existingIndex == FindBudgetIndex(budgets, yearMonth, category)
        budget == [id |-> st.nextId + 1, yearMonth |-> yearMonth,
                   category |-> category, limitCents |-> limitCents]
        saved == saveBudgets(st, IF existingIndex > 0
                                 THEN [budgets EXCEPT ![existingIndex] = budget]
                                 ELSE Append(budgets, budget))
    IN  [error |-> saved.error,
         returned |-> IF saved.error = "none" THEN budget ELSE NoValue,
         ls |-> saved.ls, counts |-> st.counts, nextId |-> st.nextId + 1,
         trace |-> <<"read:budgets">> \o saved.trace]

setBudget(st, yearMonth, limitCents, category) ==
    LET budgets == getBudgets(st.ls)
        existingIndex == FindBudgetIndex(budgets, yearMonth, category)
        budget == [id |-> IF existingIndex > 0 THEN budgets[existingIndex].id
                          ELSE st.nextId + 1,
                   yearMonth |-> yearMonth,
                   category |-> category,
                   limitCents |-> limitCents]
        saved == saveBudgets(st, IF existingIndex > 0
                                 THEN [budgets EXCEPT ![existingIndex] = budget]
                                 ELSE Append(budgets, budget))
    IN  [error |-> saved.error,
         returned |-> IF saved.error = "none" THEN budget ELSE NoValue,
         ls |-> saved.ls, counts |-> st.counts,
         nextId |-> IF existingIndex > 0 THEN st.nextId ELSE st.nextId + 1,
         trace |-> <<"read:budgets">> \o saved.trace]

-----------------------------------------------------------------------------
(* lib/csv-utils.ts *)

\* the index of the first occurrence of the character c in s from i on, 0 when
\* there is none
RECURSIVE IndexFrom(_, _, _)
IndexFrom(s, c, i) ==
    IF i > Len(s) THEN 0 ELSE IF s[i] = c THEN i ELSE IndexFrom(s, c, i + 1)

IndexOf(s, c) == IndexFrom(s, c, 1)

\* String.prototype.split(c)
RECURSIVE Split(_, _)
Split(s, c) ==
    LET i == IndexOf(s, c)
    IN  IF i = 0 THEN <<s>>
        ELSE <<SubSeq(s, 1, i - 1)>> \o Split(SubSeq(s, i + 1, Len(s)), c)

\* Array.prototype.join(c)
RECURSIVE Join(_, _)
Join(parts, c) ==
    IF parts = <<>> THEN <<>>
    ELSE IF Len(parts) = 1 THEN parts[1]
    ELSE parts[1] \o <<c>> \o Join(Tail(parts), c)

DigitChar(d) == CASE d = 0 -> "0" [] d = 1 -> "1" [] d = 2 -> "2" [] d = 3 -> "3"
                  [] d = 4 -> "4" [] d = 5 -> "5" [] d = 6 -> "6" [] d = 7 -> "7"
                  [] d = 8 -> "8" [] d = 9 -> "9"

DigitValue(c) == CHOOSE d \in 0..9 : DigitChar(d) = c

\* the decimal digits of a natural number
RECURSIVE Decimal(_)
Decimal(n) == IF n < 10 THEN <<DigitChar(n)>> ELSE Decimal(n \div 10) \o <<DigitChar(n % 10)>>

\* the natural number a sequence of digits denotes
RECURSIVE DigitsToNat(_)
DigitsToNat(ds) ==
    IF ds = <<>> THEN 0 ELSE 10 * DigitsToNat(SubSeq(ds, 1, Len(ds) - 1)) + DigitValue(ds[Len(ds)])

\* (amountCents / 100).toFixed(2)
ToFixed2(amountCents) ==
    Decimal(amountCents \div 100) \o <<".">>
        \o <<DigitChar((amountCents % 100) \div 10), DigitChar(amountCents % 10)>>

\* the longest prefix of s made of digits
RECURSIVE LeadingDigits(_)
LeadingDigits(s) ==
    IF s # <<>> /\ Head(s) \in Digits THEN <<Head(s)>> \o LeadingDigits(Tail(s)) ELSE <<>>

\* parseFloat: the longest prefix [+-]digits[.digits] after leading white space,
\* NaN when it holds no digit.  The number is kept exactly, as sign, integer
\* part and fraction digits (no input of the model carries an exponent).
parseFloat(str) ==
    LET s0 == TrimStart(str)
        negative == s0 # <<>> /\ Head(s0) = "-"
        s1 == IF s0 # <<>> /\ Head(s0) \in {"-", "+"} THEN Tail(s0) ELSE s0
        whole == LeadingDigits(s1)
        rest == SubSeq(s1, Len(whole) + 1, Len(s1))
        fraction == IF rest # <<>> /\ Head(rest) = "." THEN LeadingDigits(Tail(rest))
                    ELSE <<>>
    IN  [isNaN |-> whole = <<>> /\ fraction = <<>>,
         negative |-> negative,
         whole |-> DigitsToNat(whole),
         fraction |-> fraction]

\* amount <= 0
NotPositive(amount) ==
    \/ amount.negative
    \/ amount.whole = 0 /\ \A i \in 1..Len(amount.fraction) : amount.fraction[i] = "0"

\* Math.round(amount * 100) of a positive amount.  With at most two fraction
\* digits the product is within a rounding error of the integer; a third digit
\* rounds half up.
RoundCents(amount) ==
    LET f == amount.fraction \o <<"0", "0", "0">>
    IN  amount.whole * 100 + DigitValue(f[1]) * 10 + DigitValue(f[2])
            + (IF DigitValue(f[3]) >= 5 THEN 1 ELSE 0)

IsLeapYear(y) == (y % 4 = 0 /\ y % 100 # 0) \/ y % 400 = 0

DaysInMonth(y, m) ==
    IF m = 2 THEN (IF IsLeapYear(y) THEN 29 ELSE 28)
    ELSE IF m \in {4, 6, 9, 11} THEN 30 ELSE 31

\* new Date(str) of a date-only ISO string is that day at 00:00 UTC; every
\* other string the model feeds it is no date at all (Invalid Date)
DateParse(str) ==
    LET ok == /\ IsDateOnly(str)
              /\ DigitsToNat(SubSeq(str, 6, 7)) \in 1..12
              /\ DigitsToNat(SubSeq(str, 9, 10)) \in
                     1..DaysInMonth(DigitsToNat(SubSeq(str, 1, 4)),
                                    DigitsToNat(SubSeq(str, 6, 7)))
    IN  [invalid |-> ~ok, day |-> IF ok THEN str ELSE <<>>]

\* Date.prototype.toISOString()
ToISOString(date) ==
    date.day \o <<"T", "0", "0", ":", "0", "0", ":", "0", "0", ".", "0", "0", "0", "Z">>

CsvHeader ==
    << <<"d", "a", "t", "e">>, <<"a", "m", "o", "u", "n", "t">>,
       <<"c", "u", "r", "r", "e", "n", "c", "y">>,
       <<"c", "a", "t", "e", "g", "o", "r", "y">>, <<"n", "o", "t", "e">>,
       <<"p", "a", "y", "m", "e", "n", "t", "_", "m", "e", "t", "h", "o", "d">> >>

H_date == CsvHeader[1]
H_amount == CsvHeader[2]
H_currency == CsvHeader[3]
H_category == CsvHeader[4]
H_note == CsvHeader[5]
H_payment_method == CsvHeader[6]

\* value || ''
OrEmpty(v) == IF Truthy(v) THEN v ELSE <<>>

\* the text of the export; the caller makes sure the collection is not empty
exportToCSV(expenses) ==
    LET Row(e) == << Head(Split(e.paidAt, "T")), ToFixed2(e.amountCents), e.currency,
                     e.category, OrEmpty(Get(e, "note")), OrEmpty(Get(e, "paymentMethod")) >>
        rows == [i \in 1..Len(expenses) |-> Join(Row(expenses[i]), ",")]
    IN  <<BOM>> \o Join(<<Join(CsvHeader, ",")>> \o rows, "\n")

\* the row object built from a data line: header -> cell, '' for a missing cell
RowObject(headers, values) ==
    [h \in {headers[i] : i \in 1..Len(headers)} |->
        LET index == CHOOSE i \in 1..Len(headers) :
                         headers[i] = h /\ \A j \in (i + 1)..Len(headers) : headers[j] # h
        IN  IF index <= Len(values) THEN values[index] ELSE <<>>]

\* null (isNull) or the expense built from the row
createExpenseFromCSVRow(row, defaultCurrency, existingExpenses, allowDuplicates, uuid, time) ==
    LET date == DateParse(Get(row, H_date))
        amount == parseFloat(Get(row, H_amount))
        isDuplicate ==
            \E i \in 1..Len(existingExpenses) :
                LET exp == existingExpenses[i]
                IN  /\ Head(Split(exp.paidAt, "T")) = row[H_date]
                    /\ exp.amountCents = RoundCents(amount)
                    /\ exp.category = row[H_category]
                    /\ Get(exp, "note") = OrEmpty(Get(row, H_note))
        expense ==
            [id |-> uuid,
             amountCents |-> RoundCents(amount),
             currency |-> IF Truthy(Get(row, H_currency)) THEN row[H_currency]
                          ELSE defaultCurrency,
             category |-> Trim(row[H_category]),
             note |-> IF Truthy(Get(row, H_note)) /\ Trim(row[H_note]) # <<>>
                      THEN Trim(row[H_note]) ELSE Undefined,
             paidAt |-> ToISOString(date),
             paymentMethod |-> IF Truthy(Get(row, H_payment_method))
                                  /\ Trim(row[H_payment_method]) # <<>>
                               THEN Trim(row[H_payment_method]) ELSE Undefined,
             createdAt |-> time,
             updatedAt |-> time]
    IN  IF ~Truthy(Get(row, H_date)) \/ ~Truthy(Get(row, H_amount))
           \/ ~Truthy(Get(row, H_category))
        THEN [isNull |-> TRUE]
        ELSE IF date.invalid THEN [isNull |-> TRUE]
        ELSE IF amount.isNaN \/ NotPositive(amount) THEN [isNull |-> TRUE]
        ELSE IF ~allowDuplicates /\ isDuplicate THEN [isNull |-> TRUE]
        ELSE [isNull |-> FALSE, expense |-> expense]

\* the messages, in order: "missing" for the required columns that are
\* missing, "unknown" for the columns that are not among the six
validateCSVHeaders(headers) ==
    LET present == {headers[i] : i \in 1..Len(headers)}
        missingHeaders == {H_date, H_amount, H_category} \ present
        invalidHeaders == present \ {CsvHeader[i] : i \in 1..Len(CsvHeader)}
    IN  (IF missingHeaders # {} THEN <<"missing">> ELSE <<>>)
            \o (IF invalidHeaders # {} THEN <<"unknown">> ELSE <<>>)

-----------------------------------------------------------------------------
(* The settings screen: importCSV and its file *)

\* exportCSV puts a byte-order mark in front of the text exportToCSV returns
exportCSV(expenses) == <<BOM>> \o exportToCSV(expenses)

\* FileReader.readAsText: the UTF-8 decoder drops one leading byte-order mark
readAsText(file) == IF file # <<>> /\ Head(file) = BOM THEN Tail(file) ELSE file

\* the loop over the data lines, from line i on
RECURSIVE ImportRows(_, _, _, _)
ImportRows(lines, i, ctx, acc) ==
    IF i > Len(lines) THEN acc
    ELSE LET line == Trim(lines[i])
             cells == Split(line, ",")
             values == [j \in 1..Len(cells) |-> Trim(cells[j])]
             Made(uuid) ==
                 createExpenseFromCSVRow(RowObject(ctx.headers, values), ctx.currency,
                                         ctx.expenses, ctx.allowDuplicates, uuid, ctx.now)
             Step(made) ==
                 IF made.isNull THEN [acc EXCEPT !.skipped = @ + 1]
                 ELSE [acc EXCEPT !.newExpenses = Append(@, made.expense),
                                  !.imported = @ + 1,
                                  !.nextId = @ + 1]
         IN  IF line = <<>> THEN ImportRows(lines, i + 1, ctx, acc)
             ELSE Bind(Bind(Made(acc.nextId + 1), Step),
                       LAMBDA stepped : ImportRows(lines, i + 1, ctx, stepped))

\* the loop that creates the missing categories, from expense i on
RECURSIVE NewCategories(_, _, _, _)
NewCategories(newExpenses, i, existingCategories, acc) ==
    IF i > Len(newExpenses) THEN acc
    ELSE LET name == newExpenses[i].category
             created == [acc EXCEPT !.newCategories =
                                        Append(@, [id |-> acc.nextId + 1, name |-> name]),
                                    !.nextId = @ + 1]
         IN  IF toLowerCase(name) \in existingCategories
             THEN NewCategories(newExpenses, i + 1, existingCategories, acc)
             ELSE Bind(created,
                       LAMBDA stepped :
                           NewCategories(newExpenses, i + 1,
                                         existingCategories \cup {toLowerCase(name)},
                                         stepped))

\* the part of the handler that follows the header check
ImportBody(st, prefs, expenses, rows) ==
    LET saved == IF rows.newExpenses # <<>>
                 THEN saveExpenses(st, expenses \o rows.newExpenses)
                 ELSE [error |-> "none", ls |-> st.ls, counts |-> st.counts,
                       trace |-> <<>>]
        cats == NewCategories(rows.newExpenses, 1,
                              {toLowerCase(prefs.categories[i].name) :
                                   i \in 1..Len(prefs.categories)},
                              [newCategories |-> <<>>, nextId |-> rows.nextId])
        Failed(sv) ==
            [toast |-> "Import failed", description |-> sv.error,
             imported |-> rows.imported, skipped |-> rows.skipped,
             ls |-> sv.ls, counts |-> sv.counts, nextId |-> rows.nextId,
             categories |-> prefs.categories,
             trace |-> <<"read:expenses">> \o sv.trace]
        Completed(sv) ==
            Bind(cats, LAMBDA c :
                [toast |-> "Import completed", description |-> "",
                 imported |-> rows.imported, skipped |-> rows.skipped,
                 ls |-> sv.ls, counts |-> sv.counts, nextId |-> c.nextId,
                 categories |-> prefs.categories \o c.newCategories,
                 trace |-> <<"read:expenses">> \o sv.trace])
    IN  Bind(saved, LAMBDA sv : IF sv.error # "none" THEN Failed(sv) ELSE Completed(sv))

\* the handler of reader.onload.  toast is the title of the toast it shows.
importCSV(st, prefs, file, allowDuplicates) ==
    LET Headers(lines) ==
            LET cells == Split(lines[1], ",")
            IN  [j \in 1..Len(cells) |-> Trim(cells[j])]
        Rows(lines, headers, expenses) ==
            ImportRows(lines, 2,
                       [headers |-> headers, currency |-> prefs.currency,
                        expenses |-> expenses, allowDuplicates |-> allowDuplicates,
                        now |-> st.now],
                       [newExpenses |-> <<>>, imported |-> 0, skipped |-> 0,
                        nextId |-> st.nextId])
        Invalid(headerErrors) ==
            [toast |-> "Invalid CSV format", description |-> headerErrors[1],
             imported |-> 0, skipped |-> 0,
             ls |-> st.ls, counts |-> st.counts, nextId |-> st.nextId,
             categories |-> prefs.categories, trace |-> <<"read:expenses">>]
    IN  Bind(Split(readAsText(file), "\n"), LAMBDA lines :
        Bind(Headers(lines), LAMBDA headers :
        Bind(validateCSVHeaders(headers), LAMBDA headerErrors :
        Bind(getExpenses(st.ls), LAMBDA expenses :
            IF headerErrors # <<>> THEN Invalid(headerErrors)
            ELSE Bind(Rows(lines, headers, expenses),
                      LAMBDA rows : ImportBody(st, prefs, expenses, rows))))))

\* categories.find(cat => cat.id === id): the index of the category, 0 when
\* there is none
FindCategory(categories, id) ==
    IF \E i \in 1..Len(categories) : categories[i].id = id
    THEN CHOOSE i \in 1..Len(categories) :
             categories[i].id = id /\ \A j \in 1..(i - 1) : categories[j].id # id
    ELSE 0

\* the new list of categories
handleAddCategory(prefs, name, uuid) ==
    Append(prefs.categories, [id |-> uuid, name |-> Trim(name)])

\* error names the exception that leaves the handler, toast the toast shown
\* a variant that removes the category and leaves the expenses alone
handleMergeCategoryListOnly(st, prefs, fromId, toId) ==
    IF FindCategory(prefs.categories, fromId) = 0 \/ FindCategory(prefs.categories, toId) = 0
    THEN [error |-> "none", toast |-> "none", ls |-> st.ls, counts |-> st.counts,
          categories |-> prefs.categories, trace |-> <<>>]
    ELSE [error |-> "none", toast |-> "Category merged successfully", ls |-> st.ls,
          counts |-> st.counts,
          categories |-> SelectSeq(prefs.categories, LAMBDA cat : cat.id # fromId),
          trace |-> <<>>]

handleMergeCategory(st, prefs, fromId, toId) ==
    LET from == FindCategory(prefs.categories, fromId)
        to == FindCategory(prefs.categories, toId)
        expenses == getExpenses(st.ls)
        updatedExpenses ==
            [i \in 1..Len(expenses) |->
                IF expenses[i].category = prefs.categories[from].name
                THEN Spread(expenses[i], [category |-> prefs.categories[to].name,
                                          updatedAt |-> st.now])
                ELSE expenses[i]]
        Saved(saved) ==
            IF saved.error # "none"
            THEN [error |-> saved.error, toast |-> "none", ls |-> saved.ls,
                  counts |-> saved.counts, categories |-> prefs.categories,
                  trace |-> <<"read:expenses">> \o saved.trace]
            ELSE [error |-> "none", toast |-> "Category merged successfully",
                  ls |-> saved.ls, counts |-> saved.counts,
                  categories |-> SelectSeq(prefs.categories, LAMBDA cat : cat.id # fromId),
                  trace |-> <<"read:expenses">> \o saved.trace]
    IN  IF from = 0 \/ to = 0
        THEN [error |-> "none", toast |-> "none", ls |-> st.ls, counts |-> st.counts,
              categories |-> prefs.categories, trace |-> <<>>]
        ELSE Bind(saveExpenses(st, updatedExpenses), Saved)

-----------------------------------------------------------------------------
(* Bounds and the values the calls are made with *)

MaxSteps == 3
MaxBurst == 102
MaxExportRows == 2
MaxLogLen == 5
MaxClock == 6
MaxOpsInput == 2
MaxWindowInput == 2

Food == <<"F", "o", "o", "d">>
Groceries == <<"G", "r", "o", "c", "e", "r", "i", "e", "s">>
Transport == <<"T", "r", "a", "n", "s", "p", "o", "r", "t">>
Bills == <<"B", "i", "l", "l", "s">>
Entertainment == <<"E", "n", "t", "e", "r", "t", "a", "i", "n", "m", "e", "n", "t">>
Health == <<"H", "e", "a", "l", "t", "h">>
Shopping == <<"S", "h", "o", "p", "p", "i", "n", "g">>
Other == <<"O", "t", "h", "e", "r">>
Travel == <<"T", "r", "a", "v", "e", "l">>
Card == <<"C", "a", "r", "d">>
EUR == <<"E", "U", "R">>
Date_2024_03_15 == <<"2", "0", "2", "4", "-", "0", "3", "-", "1", "5">>
Date_2024_01_05 == <<"2", "0", "2", "4", "-", "0", "1", "-", "0", "5">>
Month_2024_03 == <<"2", "0", "2", "4", "-", "0", "3">>
Amount_12_50 == <<"1", "2", ".", "5", "0">>

\* storage.ts:44, defaultUserPreferences (the colours are left out)
defaultUserPreferences ==
    [currency |-> EUR,
     categories |-> << [id |-> -1, name |-> Food], [id |-> -2, name |-> Groceries],
                       [id |-> -3, name |-> Transport], [id |-> -4, name |-> Bills],
                       [id |-> -5, name |-> Entertainment], [id |-> -6, name |-> Health],
                       [id |-> -7, name |-> Shopping], [id |-> -8, name |-> Other] >>]

\* what the add dialog passes: a lunch without note or payment method
Lunch == [amountCents |-> 1599, currency |-> EUR, category |-> Food,
          paidAt |-> Date_2024_03_15]

\* free text that the sanitizers change
Snack == [amountCents |-> 1250, currency |-> EUR, category |-> <<"B", "&", "B", " ">>,
          note |-> <<"<", "o", "k", ">">>, paidAt |-> Date_2024_01_05,
          paymentMethod |-> <<"C", "a", "r", "d", "'">>]

\* a category made of characters outside [a-zA-Z0-9\s\-_]
Symbols == [amountCents |-> 500, currency |-> EUR, category |-> <<"#", "#">>,
            paidAt |-> Date_2024_03_15]

ExpenseInputs == {Lunch, Snack, Symbols}

AmountOnly == [amountCents |-> 2000]

\* what the edit dialog passes
WholeForm == [amountCents |-> 2000, currency |-> EUR, category |-> Bills,
              note |-> <<"o", "k">>, paidAt |-> Date_2024_01_05, paymentMethod |-> Card]

CategoryOnly == [category |-> Bills]

\* an updates object that carries the fields the store stamps itself
Restamp == [id |-> 7, createdAt |-> 5, category |-> Bills]

UpdateInputs == {AmountOnly, CategoryOnly, Restamp, WholeForm}

IdInputs == {1, 2}

StoredLunch == [id |-> 1, createdAt |-> 0, updatedAt |-> 0] @@ Lunch

ValidRecord == [id |-> 1001, amountCents |-> 700, currency |-> EUR, category |-> Health,
                note |-> <<"o", "k">>, paidAt |-> Date_2024_01_05,
                createdAt |-> 0, updatedAt |-> 0]

\* amountCents below the schema's minimum
InvalidRecord == [ValidRecord EXCEPT !.id = 1002, !.amountCents = 0]

CollectionInputs == {<<>>, <<ValidRecord>>, <<ValidRecord, InvalidRecord>>}

BudgetInputs ==
    {[yearMonth |-> Month_2024_03, limitCents |-> 50000, category |-> Undefined],
     [yearMonth |-> Month_2024_03, limitCents |-> 60000, category |-> Undefined],
     [yearMonth |-> Month_2024_03, limitCents |-> 20000, category |-> Food],
     [yearMonth |-> Month_2024_03, limitCents |-> -1, category |-> Undefined]}

Tags == <<"t", "a", "g", "s">>

\* date,amount,category / 2024-01-05,12.50,Travel
TravelFile ==
    Join(<<Join(<<H_date, H_amount, H_category>>, ","),
           Join(<<Date_2024_01_05, Amount_12_50, Travel>>, ",")>>, "\n")

\* the same with a column the codec does not know
TagsFile ==
    Join(<<Join(<<H_date, H_amount, H_category, Tags>>, ","),
           Join(<<Date_2024_01_05, Amount_12_50, Travel, <<"x">> >>, ",")>>, "\n")

\* the category column is missing
NoCategoryFile ==
    Join(<<Join(<<H_date, H_amount>>, ","),
           Join(<<Date_2024_01_05, Amount_12_50>>, ",")>>, "\n")

\* the files a user can pick: three written by hand and, when there is a
\* stored collection to export, the text exportToCSV returns for it and the
\* file exportCSV downloads
FileInputs(ls) ==
    {TravelFile, TagsFile, NoCategoryFile}
        \cup (IF getExpenses(ls) # <<>> /\ Len(getExpenses(ls)) <= MaxExportRows
              THEN {exportToCSV(getExpenses(ls)), exportCSV(getExpenses(ls))}
              ELSE {})

\* a name one character longer than the schema allows for a category
LongName == Repeat("x", CategoryMaxLength + 1)

CategoryNameInputs == {Travel, LongName}

\* Food and an id no category has
MergeFromInputs == {-1, -9}

\* Other and the categories the user has added
MergeTargets(categories) ==
    {-8} \cup {categories[i].id : i \in {j \in 1..Len(categories) : categories[j].id > 0}}

TickInputs == {1, DefaultWindowMs + 1}

NoHammer == [op |-> "none"]

RateLimitInputs ==
    {[op |-> "checkRateLimit", maxOps |-> m, windowMs |-> w] :
         m \in 1..MaxOpsInput, w \in 1..MaxWindowInput}

OperationInputs == {"addExpense", "saveExpenses"}

HammerCalls ==
    {[op |-> "addExpense", expense |-> Lunch],
     [op |-> "updateExpense", id |-> 1, updates |-> WholeForm],
     [op |-> "saveExpenses", expenses |-> <<ValidRecord>>]}

-----------------------------------------------------------------------------
(* The state machine *)

State == [ls |-> localStorage, counts |-> operationCounts, now |-> now, nextId |-> nextId]

NoCall == [call |-> [op |-> "none"]]

Init ==
    /\ localStorage = << >>
    /\ operationCounts = << >>
    /\ now = 0
    /\ nextId = 0
    /\ currentPrefs = defaultUserPreferences
    /\ last = NoCall
    /\ callLog = << >>
    /\ steps = 0
    /\ hammer = NoHammer
    /\ InitEnvironment

\* A run makes at most MaxSteps calls.  A caller that hammers repeats one
\* call, at most MaxBurst times, and then makes one other call.
Drive ==
    /\ hammer' = hammer
    /\ UNCHANGED environment
    /\ steps' = steps + 1
    /\ IF hammer = NoHammer
       THEN steps < MaxSteps
       ELSE steps < MaxBurst /\ (steps = 0 \/ last.call = hammer)

SaveExpenses ==
    \E expenses \in CollectionInputs :
        LET call == [op |-> "saveExpenses", expenses |-> expenses]
            out == saveExpenses(State, expenses)
        IN  /\ Drive
            /\ localStorage' = out.ls
            /\ operationCounts' = out.counts
            /\ last' = [call |-> call, error |-> out.error, trace |-> out.trace,
                        before |-> localStorage, countsBefore |-> operationCounts]
            /\ UNCHANGED <<now, nextId, currentPrefs, callLog>>

AddExpense ==
    \E expense \in ExpenseInputs :
        LET call == [op |-> "addExpense", expense |-> expense]
            out == addExpense(State, expense)
        IN  /\ Drive
            /\ localStorage' = out.ls
            /\ operationCounts' = out.counts
            /\ nextId' = out.nextId
            /\ last' = [call |-> call, error |-> out.error, returned |-> out.returned,
                        trace |-> out.trace,
                        before |-> localStorage, countsBefore |-> operationCounts]
            /\ UNCHANGED <<now, currentPrefs, callLog>>

UpdateExpense ==
    \E id \in IdInputs, updates \in UpdateInputs :
        LET call == [op |-> "updateExpense", id |-> id, updates |-> updates]
            out == updateExpense(State, id, updates)
        IN  /\ Drive
            /\ localStorage' = out.ls
            /\ operationCounts' = out.counts
            /\ last' = [call |-> call, error |-> out.error, returned |-> out.returned,
                        trace |-> out.trace,
                        before |-> localStorage, countsBefore |-> operationCounts]
            /\ UNCHANGED <<now, nextId, currentPrefs, callLog>>

DeleteExpense ==
    \E id \in IdInputs :
        LET call == [op |-> "deleteExpense", id |-> id]
            out == deleteExpense(State, id)
        IN  /\ Drive
            /\ localStorage' = out.ls
            /\ operationCounts' = out.counts
            /\ last' = [call |-> call, error |-> out.error, returned |-> out.returned,
                        trace |-> out.trace,
                        before |-> localStorage, countsBefore |-> operationCounts]
            /\ UNCHANGED <<now, nextId, currentPrefs, callLog>>

SetBudget ==
    \E b \in BudgetInputs :
        LET call == [op |-> "setBudget", budget |-> b]
            out == setBudget(State, b.yearMonth, b.limitCents, b.category)
        IN  /\ Drive
            /\ localStorage' = out.ls
            /\ operationCounts' = out.counts
            /\ nextId' = out.nextId
            /\ last' = [call |-> call, error |-> out.error, returned |-> out.returned,
                        trace |-> out.trace,
                        before |-> localStorage, countsBefore |-> operationCounts]
            /\ UNCHANGED <<now, currentPrefs, callLog>>

ImportCSV ==
    \E file \in FileInputs(localStorage), allowDuplicates \in BOOLEAN :
        LET call == [op |-> "importCSV", file |-> file, allowDuplicates |-> allowDuplicates]
            out == importCSV(State, currentPrefs, file, allowDuplicates)
        IN  /\ Drive
            /\ localStorage' = out.ls
            /\ operationCounts' = out.counts
            /\ nextId' = out.nextId
            /\ currentPrefs' = [currentPrefs EXCEPT !.categories = out.categories]
            /\ last' = [call |-> call, toast |-> out.toast,
                        description |-> out.description,
                        imported |-> out.imported, skipped |-> out.skipped,
                        trace |-> out.trace,
                        before |-> localStorage, countsBefore |-> operationCounts,
                        categoriesBefore |-> currentPrefs.categories]
            /\ UNCHANGED <<now, callLog>>

AddCategory ==
    \E name \in CategoryNameInputs :
        /\ Drive
        /\ nextId' = nextId + 1
        /\ currentPrefs' = [currentPrefs EXCEPT
                               !.categories = handleAddCategory(currentPrefs, name,
                                                                nextId + 1)]
        /\ last' = [call |-> [op |-> "addCategory", name |-> name]]
        /\ UNCHANGED <<localStorage, operationCounts, now, callLog>>

\* the merge dialog offers every category but the one to delete
MergeCategory ==
    \E fromId \in MergeFromInputs :
        \E toId \in MergeTargets(currentPrefs.categories) \ {fromId} :
            LET call == [op |-> "mergeCategory", fromId |-> fromId, toId |-> toId]
                out == handleMergeCategory(State, currentPrefs, fromId, toId)
            IN  /\ Drive
                /\ localStorage' = out.ls
                /\ operationCounts' = out.counts
                /\ currentPrefs' = [currentPrefs EXCEPT !.categories = out.categories]
                /\ last' = [call |-> call, error |-> out.error, toast |-> out.toast,
                            trace |-> out.trace,
                            before |-> localStorage, countsBefore |-> operationCounts,
                            categoriesBefore |-> currentPrefs.categories]
                /\ UNCHANGED <<now, nextId, callLog>>

\* time passes between two calls
Tick ==
    \E d \in TickInputs :
        /\ Drive
        /\ now' = now + d
        /\ last' = [call |-> [op |-> "tick", ms |-> d]]
        /\ UNCHANGED <<localStorage, operationCounts, nextId, currentPrefs, callLog>>

Next ==
    \/ SaveExpenses
    \/ AddExpense
    \/ UpdateExpense
    \/ DeleteExpense
    \/ SetBudget
    \/ ImportCSV
    \/ AddCategory
    \/ MergeCategory
    \/ Tick

Spec == Init /\ [][Next]_vars

\* the process starts with one stored expense and an empty limiter, and its
\* caller hammers one call
InitBurst ==
    /\ localStorage = (EXPENSES_KEY :> <<StoredLunch>>)
    /\ operationCounts = << >>
    /\ now = 0
    /\ nextId = 1
    /\ currentPrefs = defaultUserPreferences
    /\ last = NoCall
    /\ callLog = << >>
    /\ steps = 0
    /\ hammer \in HammerCalls
    /\ InitEnvironment

SpecBurst == InitBurst /\ [][Next]_vars

-----------------------------------------------------------------------------
(* The rate limiter on its own: a caller that calls checkRateLimit with one *)
(* maxOps and one windowMs, for two kinds, while time passes                *)

InitRL ==
    /\ localStorage = << >>
    /\ operationCounts = << >>
    /\ now = 0
    /\ nextId = 0
    /\ currentPrefs = defaultUserPreferences
    /\ last = NoCall
    /\ callLog = << >>
    /\ steps = 0
    /\ hammer \in RateLimitInputs
    /\ InitEnvironment

CheckRateLimit ==
    \E operation \in OperationInputs :
        LET out == checkRateLimit(operationCounts, now, operation, hammer.maxOps,
                                  hammer.windowMs)
        IN  /\ Len(callLog) < MaxLogLen
            /\ operationCounts' = out.counts
            /\ callLog' = Append(callLog, [operation |-> operation, time |-> now,
                                           allowed |-> out.allowed])
            /\ last' = [call |-> [op |-> "checkRateLimit", operation |-> operation],
                        returned |-> out.allowed, countsBefore |-> operationCounts]
            /\ steps' = steps + 1
            /\ UNCHANGED <<localStorage, now, nextId, currentPrefs, hammer>>
            /\ UNCHANGED environment

ClockTick ==
    /\ now < MaxClock
    /\ now' = now + 1
    /\ UNCHANGED <<localStorage, operationCounts, nextId, currentPrefs, last, callLog,
                   steps, hammer>>
    /\ UNCHANGED environment

NextRL == CheckRateLimit \/ ClockTick

SpecRL == InitRL /\ [][NextRL]_vars

-----------------------------------------------------------------------------
(* Properties of saveExpenses, addExpense and updateExpense.  last holds   *)
(* the call made last, its outcome, and localStorage and the limiter's map  *)
(* as they were when it was made.                                           *)

\* the limiter's window for the kind is open and full
Exhausted(counts, time, operation, maxOps) ==
    /\ operation \in DOMAIN counts
    /\ time <= counts[operation].resetTime
    /\ counts[operation].count >= maxOps

SaveOfInvalid ==
    /\ last.call.op = "saveExpenses"
    /\ ~validateExpenseData(last.call.expenses)

\* C1 as stated: saveExpenses with a collection holding a record that fails
\* the schema always fails with the validation error and leaves the blob as
\* it was.
C1_AsClaimed ==
    SaveOfInvalid => (last.error = "validation" /\ localStorage = last.before)

\* C1: saveExpenses with a collection holding a record that fails the schema
\* fails and leaves the stored blob as it was; the error is the validation
\* error unless the saveExpenses window of the limiter was already full, and
\* then it is the rate-limit error, thrown before the validation.
C1_SaveInvalid ==
    SaveOfInvalid =>
        /\ localStorage = last.before
        /\ last.error =
               IF Exhausted(last.countsBefore, now, "saveExpenses", SaveExpensesMaxOps)
               THEN "rate-limit" ELSE "validation"

C1_Witness ==
    /\ SaveOfInvalid
    /\ last.error = "validation"
    /\ getExpenses(last.before) # <<>>
    /\ \E i \in 1..Len(last.call.expenses) : ExpenseSchema(last.call.expenses[i])

\* the input with the fields addExpense adds satisfies the schema
SchemaValidInput(expense) ==
    ExpenseSchema(Spread(expense, [id |-> 0, createdAt |-> 0, updatedAt |-> 0]))

\* the optional field k of the stored record r is the sanitized field of the input
SanitizedOptional(r, expense, k, maxLength) ==
    IF k \in DOMAIN expense /\ expense[k] # Undefined
    THEN Get(r, k) = sanitizeText(expense[k], maxLength)
    ELSE Get(r, k) = Undefined

\* C2: for every input that satisfies the schema, addExpense followed by
\* getExpenses yields the previous collection plus one appended record with
\* the input's amountCents, currency and paidAt and its sanitized category,
\* note and paymentMethod.
C2_AddThenGet ==
    (last.call.op = "addExpense" /\ SchemaValidInput(last.call.expense)) =>
        LET expense == last.call.expense
            previous == getExpenses(last.before)
            after == getExpenses(localStorage)
            r == after[Len(after)]
        IN  /\ last.error = "none"
            /\ Len(after) = Len(previous) + 1
            /\ SubSeq(after, 1, Len(previous)) = previous
            /\ r.amountCents = expense.amountCents
            /\ r.currency = expense.currency
            /\ r.paidAt = expense.paidAt
            /\ r.category = sanitizeCategory(expense.category)
            /\ SanitizedOptional(r, expense, "note", TextMaxLength)
            /\ SanitizedOptional(r, expense, "paymentMethod", PaymentMethodMaxLength)

\* a schema-valid input whose category consists of characters the sanitizer
\* removes is refused, and nothing is stored
C2_Witness ==
    /\ last.call.op = "addExpense"
    /\ SchemaValidInput(last.call.expense)
    /\ sanitizeCategory(last.call.expense.category) = <<>>
    /\ last.error = "validation"
    /\ localStorage = last.before

\* C3: a caller makes AddExpenseMaxOps + 1 calls of addExpense with a valid
\* input in one window: the first AddExpenseMaxOps succeed and the next one
\* fails with the rate-limit error.
C3_AddBurst ==
    (hammer.op = "addExpense" /\ last.call = hammer) =>
        /\ (steps <= AddExpenseMaxOps => last.error = "none")
        /\ (steps = AddExpenseMaxOps + 1 => last.error = "rate-limit")

\* the call after SaveExpensesMaxOps calls of addExpense is refused by the
\* limiter of saveExpenses, which addExpense has consulted as often
C3_Witness ==
    /\ hammer.op = "addExpense"
    /\ last.call = hammer
    /\ steps = SaveExpensesMaxOps + 1
    /\ last.error = "rate-limit"
    /\ last.trace = <<"limit:addExpense", "read:expenses", "limit:saveExpenses">>

\* C4: updateExpense on an existing id with a partial update succeeds and
\* keeps every field that is not supplied; the other records are unchanged.
C4_PartialUpdate ==
    (last.call.op = "updateExpense"
        /\ FindIndex(getExpenses(last.before), last.call.id) > 0) =>
        LET previous == getExpenses(last.before)
            after == getExpenses(localStorage)
            index == FindIndex(previous, last.call.id)
            kept == DOMAIN previous[index] \ (DOMAIN last.call.updates \cup {"updatedAt"})
        IN  /\ last.error = "none"
            /\ Len(after) = Len(previous)
            /\ \A j \in 1..Len(previous) : j # index => after[j] = previous[j]
            /\ \A k \in kept : k \in DOMAIN after[index]
                                   /\ after[index][k] = previous[index][k]

\* an update that supplies only the category succeeds and drops the note
C4_Witness ==
    /\ last.call.op = "updateExpense"
    /\ last.call.updates = CategoryOnly
    /\ last.error = "none"
    /\ LET previous == getExpenses(last.before)
           index == FindIndex(previous, last.call.id)
       IN  /\ index > 0
           /\ "note" \in DOMAIN previous[index]
           /\ "note" \notin DOMAIN getExpenses(localStorage)[index]

-----------------------------------------------------------------------------
(* Properties of the CSV import *)

CategoryNames(categories) == {categories[i].name : i \in 1..Len(categories)}

\* C5: importing the file date,amount,category / 2024-01-05,12.50,Travel
\* while no category is named Travel makes the stored collection grow by
\* one record and appends one category named Travel to the category list.
C5_ImportTravel ==
    (last.call.op = "importCSV" /\ last.call.file = TravelFile
        /\ Travel \notin CategoryNames(last.categoriesBefore)) =>
        LET categories == currentPrefs.categories
            n == Len(last.categoriesBefore)
        IN  /\ Len(getExpenses(localStorage)) = Len(getExpenses(last.before)) + 1
            /\ Len(categories) = n + 1
            /\ SubSeq(categories, 1, n) = last.categoriesBefore
            /\ categories[n + 1].name = Travel

\* the row is made into an expense, the save of it throws, and neither the
\* collection nor the category list changes
C5_Witness ==
    /\ last.call.op = "importCSV"
    /\ last.call.file = TravelFile
    /\ last.imported = 1
    /\ last.toast = "Import failed"
    /\ last.description = "validation"
    /\ localStorage = last.before
    /\ currentPrefs.categories = last.categoriesBefore

\* the call imported the export of the collection that was stored, with
\* duplicates disallowed
RoundTrip ==
    /\ last.call.op = "importCSV"
    /\ ~last.call.allowDuplicates
    /\ getExpenses(last.before) # <<>>
    /\ last.call.file = exportToCSV(getExpenses(last.before))

\* C6: importing the text exportToCSV returns for the stored collection,
\* with duplicates disallowed, imports no record and ends without an error.
C6_RoundTrip ==
    RoundTrip =>
        /\ last.imported = 0
        /\ last.toast = "Import completed"
        /\ localStorage = last.before

\* the row of an expense without a note is not recognised as its duplicate
C6_Witness ==
    /\ RoundTrip
    /\ \E i \in 1..Len(getExpenses(last.before)) :
           "note" \notin DOMAIN getExpenses(last.before)[i]
    /\ last.imported >= 1
    /\ last.toast = "Import failed"

\* C7: a file whose header holds date, amount and category and a column the
\* codec does not know is not aborted, and its valid row is imported; a
\* file whose header misses a required column is aborted and nothing is
\* stored.
C7_Headers ==
    last.call.op = "importCSV" =>
        /\ last.call.file = TagsFile =>
               /\ last.toast = "Import completed"
               /\ last.call.allowDuplicates =>
                      Len(getExpenses(localStorage)) = Len(getExpenses(last.before)) + 1
        /\ last.call.file = NoCategoryFile =>
               /\ last.toast = "Invalid CSV format"
               /\ localStorage = last.before

\* the warning about the unknown column ends the import
C7_Witness ==
    /\ last.call.op = "importCSV"
    /\ last.call.file = TagsFile
    /\ last.toast = "Invalid CSV format"
    /\ last.description = "unknown"
    /\ localStorage = last.before

-----------------------------------------------------------------------------
(* Properties of the rate limiter *)

MutatingOps == {"addExpense", "updateExpense", "deleteExpense", "setBudget"}

LimitEvents == {"limit:addExpense", "limit:updateExpense", "limit:deleteExpense",
                "limit:setBudget", "limit:saveExpenses"}

\* C8: addExpense, updateExpense, deleteExpense and setBudget consult the
\* limiter before they read or write localStorage, and a call that fails
\* with the rate-limit error leaves localStorage as it was.
C8_LimiterFirst ==
    last.call.op \in MutatingOps =>
        /\ last.trace # <<>>
        /\ Head(last.trace) \in LimitEvents
        /\ last.error = "rate-limit" => localStorage = last.before

\* setBudget writes the budgets without consulting the limiter at all
C8_Witness ==
    /\ last.call.op = "setBudget"
    /\ last.error = "none"
    /\ \A i \in 1..Len(last.trace) : last.trace[i] \notin LimitEvents
    /\ localStorage # last.before
    /\ operationCounts = last.countsBefore

\* the calls made for the kind, in order
CallsOf(operation) == SelectSeq(callLog, LAMBDA c : c.operation = operation)

\* the index of the call that opened the window the i-th call falls in: a
\* call opens a window when it is the first one or comes after the end of
\* the window before
RECURSIVE Opener(_, _, _)
Opener(calls, i, windowMs) ==
    IF i = 1 THEN 1
    ELSE LET o == Opener(calls, i - 1, windowMs)
         IN  IF calls[i].time > calls[o].time + windowMs THEN i ELSE o

\* C9: the first call for a kind is allowed and opens a window with count
\* 1; in a window exactly the first maxOps calls are allowed; a denied call
\* does not change the counters.
C9_Counter ==
    /\ \A operation \in OperationInputs :
           LET calls == CallsOf(operation)
               n == Len(calls)
               Position(i) == i - Opener(calls, i, hammer.windowMs) + 1
           IN  /\ \A i \in 1..n : calls[i].allowed <=> Position(i) <= hammer.maxOps
               /\ n = 1 => /\ calls[1].allowed
                           /\ operationCounts[operation] =
                                  [count |-> 1,
                                   resetTime |-> calls[1].time + hammer.windowMs]
               /\ n >= 1 => operationCounts[operation].count
                                = Min(Position(n), hammer.maxOps)
    /\ (last.call.op = "checkRateLimit" /\ ~last.returned) =>
           operationCounts = last.countsBefore

\* the call after maxOps calls in one window is denied
C9_Witness ==
    \E operation \in OperationInputs :
        LET calls == CallsOf(operation)
            n == Len(calls)
        IN  /\ hammer.maxOps = MaxOpsInput
            /\ n = hammer.maxOps + 1
            /\ Opener(calls, n, hammer.windowMs) = 1
            /\ ~calls[n].allowed
            /\ last.call.operation = operation
            /\ operationCounts = last.countsBefore

\* C10: a call made after the end of the window (time > resetTime) is
\* allowed, also when the window was full, and opens a window with count 1;
\* while the window has not ended, a call that finds it full is denied.
C10_Expiry ==
    \A operation \in OperationInputs :
        LET calls == CallsOf(operation)
            n == Len(calls)
        IN  n >= 2 =>
                LET o == Opener(calls, n - 1, hammer.windowMs)
                    expired == calls[n].time > calls[o].time + hammer.windowMs
                    full == (n - 1) - o + 1 >= hammer.maxOps
                IN  /\ expired =>
                           /\ calls[n].allowed
                           /\ operationCounts[operation] =
                                  [count |-> 1,
                                   resetTime |-> calls[n].time + hammer.windowMs]
                    /\ (~expired /\ full) => ~calls[n].allowed

\* a kind that was denied is allowed again once its window has ended
C10_Witness ==
    \E operation \in OperationInputs :
        LET calls == CallsOf(operation)
            n == Len(calls)
        IN  /\ n >= 2
            /\ ~calls[n - 1].allowed
            /\ calls[n].allowed
            /\ operationCounts[operation].count = 1


-----------------------------------------------------------------------------
(* Properties of the budgets *)

\* the budgets as they are stored
PersistedBudgets(ls) == IF BUDGETS_KEY \in DOMAIN ls THEN ls[BUDGETS_KEY] ELSE <<>>

SamePair(a, b) ==
    a.yearMonth = b.yearMonth /\ Get(a, "category") = Get(b, "category")

\* C11: the stored budgets hold at most one budget per (yearMonth, category),
\* a budget without category being a pair of its own.
C11_UniqueBudgets ==
    LET budgets == PersistedBudgets(localStorage)
    IN  \A i, j \in 1..Len(budgets) : SamePair(budgets[i], budgets[j]) => i = j

\* a second call for a pair, made while two pairs are stored
C11_Witness ==
    /\ last.call.op = "setBudget"
    /\ last.error = "none"
    /\ Len(PersistedBudgets(last.before)) = 2
    /\ Len(PersistedBudgets(localStorage)) = 2
    /\ localStorage # last.before

BudgetCallValid ==
    /\ last.call.op = "setBudget"
    /\ last.call.budget.limitCents >= 0
    /\ last.call.budget.limitCents <= AmountMaxCents

\* C12: setBudget for a stored pair replaces the budget in place, with the
\* same id and position and the new limitCents, and leaves the size and the
\* other budgets as they were; for a new pair it appends a budget with an
\* id no stored budget has.
C12_Upsert ==
    BudgetCallValid =>
        LET b == last.call.budget
            previous == PersistedBudgets(last.before)
            after == PersistedBudgets(localStorage)
            index == FindBudgetIndex(previous, b.yearMonth, b.category)
            at == IF index > 0 THEN index ELSE Len(previous) + 1
        IN  /\ last.error = "none"
            /\ Len(after) = (IF index > 0 THEN Len(previous) ELSE Len(previous) + 1)
            /\ \A j \in 1..Len(previous) : j # index => after[j] = previous[j]
            /\ after[at].yearMonth = b.yearMonth
            /\ Get(after[at], "category") = b.category
            /\ after[at].limitCents = b.limitCents
            /\ last.returned.id = after[at].id
            /\ IF index > 0 THEN after[at].id = previous[index].id
               ELSE \A j \in 1..Len(previous) : previous[j].id # after[at].id

\* the same pair set twice with different limits
C12_Witness ==
    /\ BudgetCallValid
    /\ LET b == last.call.budget
           previous == PersistedBudgets(last.before)
           index == FindBudgetIndex(previous, b.yearMonth, b.category)
       IN  /\ index > 0
           /\ previous[index].limitCents # b.limitCents
           /\ PersistedBudgets(localStorage)[index].limitCents = b.limitCents
           /\ PersistedBudgets(localStorage)[index].id = previous[index].id

-----------------------------------------------------------------------------
(* lib/storage.ts: the legacy settings and the user preferences.  A call   *)
(* returns its outcome as the handlers above do; the prefix "raw:" in a     *)
(* trace marks an access that bypasses secureLocalStorageGet/Set.           *)

SETTINGS_KEY == "settings"
PREFS_KEY == "expensesTracker.settings"

CategoriesMax == 20

System == <<"s", "y", "s", "t", "e", "m">>
Dark == <<"d", "a", "r", "k">>
USD == <<"U", "S", "D">>

\* a stored text that JSON.parse rejects
Unparsable == [unparsable |-> TRUE]

\* storage.ts:38
defaultSettings ==
    [currency |-> EUR,
     categories |-> <<Food, Groceries, Transport, Bills, Entertainment, Health,
                      Shopping, Other>>,
     theme |-> System]

\* security.ts:54; an object without the key categories fails like one whose
\* categories are undefined
SettingsSchema(s) ==
    /\ {"currency", "categories"} \subseteq DOMAIN s
    /\ IsCurrencyCode(s.currency)
    /\ Len(s.categories) <= CategoriesMax
    /\ \A i \in 1..Len(s.categories) :
           Len(s.categories[i]) >= 1 /\ Len(s.categories[i]) <= CategoryMaxLength
    /\ "monthlyBudget" \in DOMAIN s =>
           s.monthlyBudget >= 0 /\ s.monthlyBudget <= AmountMaxCents

validateSettingsData(data) == SettingsSchema(data)

getSettings(ls) ==
    LET stored == secureLocalStorageGet(ls, SETTINGS_KEY)
        merged == Spread(defaultSettings, stored.value)
    IN  IF stored.isNull THEN defaultSettings
        ELSE IF ~validateSettingsData(merged) THEN defaultSettings
        ELSE merged

\* { ...settings, categories: settings.categories?.map(sanitizeCategory).filter(Boolean) }
\* spread over the current settings.  When the caller passes no categories
\* the key holds undefined, which the schema and JSON.stringify treat as a
\* missing key: the key is left out here.
saveSettings(ls, settings) ==
    LET current == getSettings(ls)
        sanitized == SelectSeq([i \in 1..Len(settings.categories) |->
                                    sanitizeCategory(settings.categories[i])],
                               LAMBDA c : c # <<>>)
        merged == Spread(current, settings)
        updated == IF "categories" \in DOMAIN settings
                   THEN [merged EXCEPT !.categories = sanitized]
                   ELSE [k \in DOMAIN merged \ {"categories"} |-> merged[k]]
    IN  IF ~validateSettingsData(updated)
        THEN [error |-> "validation", ls |-> ls,
              trace |-> <<"read:settings">>]
        ELSE [error |-> "none", ls |-> (SETTINGS_KEY :> updated) @@ ls,
              trace |-> <<"read:settings", "write:settings">>]

\* localStorage.setItem without validation
saveUserPreferences(ls, prefs, time) ==
    (PREFS_KEY :> Spread(prefs, [lastUpdated |-> time])) @@ ls

\* data ? JSON.parse(data) : null, without try/catch
loadUserPreferences(ls) ==
    IF PREFS_KEY \notin DOMAIN ls THEN [error |-> "none", isNull |-> TRUE]
    ELSE IF ls[PREFS_KEY] = Unparsable THEN [error |-> "syntax", isNull |-> FALSE]
    ELSE [error |-> "none", isNull |-> FALSE, value |-> ls[PREFS_KEY]]

convertSettingsToUserPreferences(settings, time) ==
    [currency |-> settings.currency,
     theme |-> IF Truthy(Get(settings, "theme")) THEN settings.theme ELSE System,
     monthlyBudgetCents |-> IF "monthlyBudget" \in DOMAIN settings
                            THEN settings.monthlyBudget ELSE 0,
     categories |-> [i \in 1..Len(settings.categories) |->
                        [id |-> -i, name |-> settings.categories[i]]],
     lastUpdated |-> time]

\* a variant that converts the legacy settings on every call
getUserPreferencesAlwaysConvert(ls, time) ==
    LET converted == convertSettingsToUserPreferences(getSettings(ls), time)
    IN  [error |-> "none", returned |-> converted,
         ls |-> saveUserPreferences(ls, converted, time),
         trace |-> <<"raw:read:preferences", "read:settings", "raw:write:preferences">>]

\* conversion skipped when a new-format blob is stored, done and persisted
\* when there is none
getUserPreferences(ls, time) ==
    LET newPrefs == loadUserPreferences(ls)
        converted == convertSettingsToUserPreferences(getSettings(ls), time)
    IN  IF newPrefs.error # "none"
        THEN [error |-> newPrefs.error, returned |-> NoValue, ls |-> ls,
              trace |-> <<"raw:read:preferences">>]
        ELSE IF ~newPrefs.isNull
        THEN [error |-> "none", returned |-> newPrefs.value, ls |-> ls,
              trace |-> <<"raw:read:preferences">>]
        ELSE [error |-> "none", returned |-> converted,
              ls |-> saveUserPreferences(ls, converted, time),
              trace |-> <<"raw:read:preferences", "read:settings",
                          "raw:write:preferences">>]

-----------------------------------------------------------------------------
(* The reads of the store, over whatever a browser profile may hold: blobs  *)
(* written by the operations above, by an older version or by hand          *)

MaxReadSteps == 3

ValidBudget == [id |-> 2001, yearMonth |-> Month_2024_03, limitCents |-> 50000]

\* limitCents below the schema's minimum
InvalidBudget == [id |-> 2002, yearMonth |-> Month_2024_03, limitCents |-> -5,
                  category |-> Food]

ExpenseBlobs == {<<ValidRecord>>, <<ValidRecord, InvalidRecord>>,
                 <<InvalidRecord, ValidRecord>>}

BudgetBlobs == {<<ValidBudget>>, <<ValidBudget, InvalidBudget>>}

UsdSettings == [currency |-> USD, categories |-> <<Food, Travel>>, monthlyBudget |-> 50000]

\* a currency that is not three upper-case letters
InvalidSettings == [currency |-> <<"u", "s", "d">>, categories |-> <<Food>>]

SettingsBlobs == {UsdSettings, InvalidSettings}

StoredPrefs ==
    [currency |-> USD, theme |-> Dark, monthlyBudgetCents |-> 70000,
     categories |-> << [id |-> -1, name |-> Food], [id |-> 3001, name |-> Travel] >>,
     lastUpdated |-> 0]

\* valid JSON that is no UserPreferences: no categories, no theme, a
\* currency of two lower-case letters
BrokenPrefs == [currency |-> <<"e", "u">>, lastUpdated |-> 0]

PrefsBlobs == {StoredPrefs, BrokenPrefs, Unparsable}

\* the key absent, or set to one of the blobs
Entry(key, blobs) == {<< >>} \cup {key :> blob : blob \in blobs}

StoreInputs ==
    {e @@ b @@ t @@ q : e \in Entry(EXPENSES_KEY, ExpenseBlobs),
                        b \in Entry(BUDGETS_KEY, BudgetBlobs),
                        t \in Entry(SETTINGS_KEY, SettingsBlobs),
                        q \in Entry(PREFS_KEY, PrefsBlobs)}

\* the second one passes no categories
SettingsInputs == {[currency |-> USD, categories |-> <<Travel, <<"#">>, Bills>>],
                   [currency |-> USD]}

PrefsInputs ==
    {[currency |-> EUR, theme |-> System, monthlyBudgetCents |-> 0,
      categories |-> << [id |-> -1, name |-> Food] >>],
     [currency |-> <<"e", "u">>]}

InitRead ==
    /\ localStorage \in StoreInputs
    /\ operationCounts = << >>
    /\ now = 0
    /\ nextId = 0
    /\ currentPrefs = defaultUserPreferences
    /\ last = NoCall
    /\ callLog = << >>
    /\ steps = 0
    /\ hammer = NoHammer
    /\ InitEnvironment

\* a run makes at most MaxReadSteps calls; the limiter and the form are not
\* involved
DriveRead ==
    /\ steps < MaxReadSteps
    /\ steps' = steps + 1
    /\ UNCHANGED <<operationCounts, now, nextId, currentPrefs, callLog, hammer>>
    /\ UNCHANGED environment

GetExpenses ==
    /\ DriveRead
    /\ last' = [call |-> [op |-> "getExpenses"], error |-> "none",
                returned |-> getExpenses(localStorage), before |-> localStorage]
    /\ UNCHANGED localStorage

GetBudgets ==
    /\ DriveRead
    /\ last' = [call |-> [op |-> "getBudgets"], error |-> "none",
                returned |-> getBudgets(localStorage), before |-> localStorage]
    /\ UNCHANGED localStorage

GetUserPreferences ==
    LET out == getUserPreferences(localStorage, now)
    IN  /\ DriveRead
        /\ localStorage' = out.ls
        /\ last' = [call |-> [op |-> "getUserPreferences"], error |-> out.error,
                    returned |-> out.returned, trace |-> out.trace,
                    before |-> localStorage]

SaveSettings ==
    \E settings \in SettingsInputs :
        LET out == saveSettings(localStorage, settings)
        IN  /\ DriveRead
            /\ localStorage' = out.ls
            /\ last' = [call |-> [op |-> "saveSettings", settings |-> settings],
                        error |-> out.error, trace |-> out.trace,
                        before |-> localStorage]

SaveUserPreferences ==
    \E prefs \in PrefsInputs :
        /\ DriveRead
        /\ localStorage' = saveUserPreferences(localStorage, prefs, now)
        /\ last' = [call |-> [op |-> "saveUserPreferences", prefs |-> prefs],
                    error |-> "none", trace |-> <<"raw:write:preferences">>,
                    before |-> localStorage]

NextRead ==
    \/ GetExpenses
    \/ GetBudgets
    \/ GetUserPreferences
    \/ SaveSettings
    \/ SaveUserPreferences

SpecRead == InitRead /\ [][NextRead]_vars

-----------------------------------------------------------------------------
(* Properties of the reads *)

\* C13: getExpenses and getBudgets return the empty collection when the
\* blob is absent and when it is present and holds a record that fails the
\* schema, and they leave localStorage as it was.
C13_ReadInvalid ==
    /\ last.call.op = "getExpenses" =>
           /\ localStorage = last.before
           /\ EXPENSES_KEY \notin DOMAIN last.before => last.returned = <<>>
           /\ (EXPENSES_KEY \in DOMAIN last.before
                  /\ \E i \in 1..Len(last.before[EXPENSES_KEY]) :
                         ~ExpenseSchema(last.before[EXPENSES_KEY][i]))
                  => last.returned = <<>>
    /\ last.call.op = "getBudgets" =>
           /\ localStorage = last.before
           /\ BUDGETS_KEY \notin DOMAIN last.before => last.returned = <<>>
           /\ (BUDGETS_KEY \in DOMAIN last.before
                  /\ \E i \in 1..Len(last.before[BUDGETS_KEY]) :
                         ~BudgetSchema(last.before[BUDGETS_KEY][i]))
                  => last.returned = <<>>

\* a blob with a valid first record and an invalid second one is read
C13_Witness ==
    /\ last.call.op = "getExpenses"
    /\ EXPENSES_KEY \in DOMAIN last.before
    /\ Len(last.before[EXPENSES_KEY]) = 2
    /\ ExpenseSchema(last.before[EXPENSES_KEY][1])
    /\ ~ExpenseSchema(last.before[EXPENSES_KEY][2])
    /\ last.returned = <<>>
    /\ localStorage[EXPENSES_KEY] = last.before[EXPENSES_KEY]

-----------------------------------------------------------------------------
(* Properties of the stored expenses *)

\* the constraints on a stored expense, field by field
MeetsConstraints(e) ==
    /\ {"amountCents", "currency", "category", "paidAt"} \subseteq DOMAIN e
    /\ e.amountCents \in 1..AmountMaxCents
    /\ Len(e.currency) = 3 /\ \A i \in 1..3 : e.currency[i] \in UpperLetters
    /\ Len(e.category) \in 1..CategoryMaxLength
    /\ "note" \in DOMAIN e => Len(e.note) <= TextMaxLength
    /\ "paymentMethod" \in DOMAIN e => Len(e.paymentMethod) <= PaymentMethodMaxLength
    /\ Len(e.paidAt) = 10
    /\ \A i \in 1..10 : IF i \in {5, 8} THEN e.paidAt[i] = "-"
                        ELSE e.paidAt[i] \in Digits

\* C14: whatever the store's operations, the category merge and the CSV
\* import have done, the stored expenses blob is absent or holds only
\* records that meet the constraints of the schema.
C14_StoredValid ==
    EXPENSES_KEY \in DOMAIN localStorage =>
        \A i \in 1..Len(localStorage[EXPENSES_KEY]) :
            MeetsConstraints(localStorage[EXPENSES_KEY][i])

\* a merge into a category whose name is too long is refused, and the
\* stored expenses stay as they were
C14_Witness ==
    /\ last.call.op = "mergeCategory"
    /\ last.error = "validation"
    /\ EXPENSES_KEY \in DOMAIN localStorage
    /\ localStorage[EXPENSES_KEY] # <<>>
    /\ localStorage = last.before

\* the day on which the process runs, 2024-02-01: the clock is 0 at the
\* start of a run and a run lasts a few minutes
Today == <<"2", "0", "2", "4", "-", "0", "2", "-", "0", "1">>

\* year, month and day of a date-only string as one number
DateKey(d) ==
    DigitsToNat(SubSeq(d, 1, 4)) * 10000 + DigitsToNat(SubSeq(d, 6, 7)) * 100
        + DigitsToNat(SubSeq(d, 9, 10))

\* not after today and not more than ten years before it
PaidAtInRange(paidAt) ==
    /\ DateKey(paidAt) <= DateKey(Today)
    /\ DateKey(paidAt) >= DateKey(Today) - 10 * 10000

\* the call stored the expense it returns
Persisted ==
    /\ last.call.op \in {"addExpense", "updateExpense"}
    /\ last.error = "none"
    /\ "paidAt" \in DOMAIN last.returned
    /\ \E i \in 1..Len(getExpenses(localStorage)) :
           getExpenses(localStorage)[i].id = last.returned.id

\* C15: an expense stored by addExpense or updateExpense has a paidAt that
\* is not later than the day of the call and not more than ten years
\* before it.
C15_PaidAtRange ==
    Persisted => PaidAtInRange(last.returned.paidAt)

\* an expense dated six weeks after the day of the call is stored
C15_Witness ==
    /\ Persisted
    /\ last.call.op = "addExpense"
    /\ DateKey(last.returned.paidAt) > DateKey(Today)
    /\ last.returned.paidAt = Date_2024_03_15

\* updateExpense found the id and stored the record
Updated ==
    /\ last.call.op = "updateExpense"
    /\ last.error = "none"
    /\ FindIndex(getExpenses(last.before), last.call.id) > 0

\* C16: the record updateExpense(id, updates) returns and stores has the id
\* it was called with and the createdAt it had, whatever the updates carry.
C16_IdImmutable ==
    Updated =>
        LET previous == getExpenses(last.before)
            index == FindIndex(previous, last.call.id)
            stored == localStorage[EXPENSES_KEY][index]
        IN  /\ last.returned.id = last.call.id
            /\ stored.id = last.call.id
            /\ last.returned.createdAt = previous[index].createdAt
            /\ stored.createdAt = previous[index].createdAt

\* the id and createdAt of the updates object replace the stored ones
C16_Witness ==
    /\ Updated
    /\ last.call.updates = Restamp
    /\ last.returned.id = Restamp.id
    /\ last.returned.id # last.call.id
    /\ \A i \in 1..Len(localStorage[EXPENSES_KEY]) :
           localStorage[EXPENSES_KEY][i].id # last.call.id

-----------------------------------------------------------------------------
(* Properties of the writes *)

WriteEvents == {"write:expenses", "write:budgets"}

\* the writes to localStorage a call made, in order
Writes(trace) == SelectSeq(trace, LAMBDA event : event \in WriteEvents)

UpdateOfMissing ==
    /\ last.call.op = "updateExpense"
    /\ FindIndex(getExpenses(last.before), last.call.id) = 0

\* C17 as stated: updateExpense with an id no stored expense has always
\* returns null without an error and leaves the collection as it was.
C17_AsClaimed ==
    UpdateOfMissing =>
        /\ last.error = "none"
        /\ last.returned = [null |-> TRUE]
        /\ localStorage = last.before

\* C17: updateExpense with an id no stored expense has writes nothing and
\* leaves localStorage as it was; it returns null without an error unless the
\* updateExpense window of the limiter was already full, and then it raises
\* the rate-limit error.
C17_UpdateMissing ==
    UpdateOfMissing =>
        /\ localStorage = last.before
        /\ Writes(last.trace) = << >>
        /\ IF Exhausted(last.countsBefore, now, "updateExpense", UpdateExpenseMaxOps)
           THEN last.error = "rate-limit"
           ELSE last.error = "none" /\ last.returned = [null |-> TRUE]

C17_Witness ==
    /\ UpdateOfMissing
    /\ last.error = "none"
    /\ last.returned = [null |-> TRUE]
    /\ getExpenses(last.before) # << >>

\* the key a mutating call persists its collection under
KeyOf(op) == IF op = "setBudget" THEN BUDGETS_KEY ELSE EXPENSES_KEY

\* the call succeeded and had something to change
Successful ==
    /\ last.error = "none"
    /\ last.call.op \in {"updateExpense", "deleteExpense"} =>
           FindIndex(getExpenses(last.before), last.call.id) > 0

\* C18: a successful addExpense, updateExpense of a stored id, deleteExpense
\* of a stored id or setBudget makes exactly one write, of its whole
\* collection under its key; a call that fails or finds nothing to change
\* makes no write and leaves localStorage as it was.
C18_OneWrite ==
    last.call.op \in MutatingOps =>
        IF Successful
        THEN LET key == KeyOf(last.call.op)
             IN  /\ Len(Writes(last.trace)) = 1
                 /\ key \in DOMAIN localStorage
                 /\ localStorage = (key :> localStorage[key]) @@ last.before
        ELSE /\ Writes(last.trace) = << >>
             /\ localStorage = last.before

C18_Witness ==
    /\ last.call.op = "updateExpense"
    /\ Successful
    /\ Writes(last.trace) = <<"write:expenses">>
    /\ localStorage # last.before

-----------------------------------------------------------------------------
(* Properties of the preferences *)

\* the shape of UserPreferences: its fields present, a currency code, a
\* budget that is not negative
ValidPreferences(p) ==
    /\ {"currency", "theme", "monthlyBudgetCents", "categories"} \subseteq DOMAIN p
    /\ IsCurrencyCode(p.currency)
    /\ p.monthlyBudgetCents >= 0

\* C19: getUserPreferences raises nothing and returns the default or
\* migrated value or a stored value that is a valid UserPreferences; a stored
\* blob that is malformed or invalid is replaced by the defaults.
C19_ValidatedRead ==
    last.call.op = "getUserPreferences" =>
        /\ last.error = "none"
        /\ ValidPreferences(last.returned)
        /\ (PREFS_KEY \in DOMAIN last.before /\ ~ValidPreferences(last.before[PREFS_KEY]))
               => last.returned.categories = defaultUserPreferences.categories

\* a stored blob that is no UserPreferences is returned as it is
C19_Witness ==
    /\ last.call.op = "getUserPreferences"
    /\ last.error = "none"
    /\ last.returned = BrokenPrefs
    /\ ~ValidPreferences(last.returned)

Events(trace) == {trace[i] : i \in 1..Len(trace)}

\* C20: getUserPreferences without a stored new-format blob converts the
\* legacy settings, stores the result and returns it; with a stored
\* new-format blob it returns that blob, reads no legacy settings and writes
\* nothing, whatever the legacy blob holds by then.
C20_MigrateOnce ==
    (last.call.op = "getUserPreferences" /\ last.error = "none") =>
        IF PREFS_KEY \notin DOMAIN last.before
        THEN /\ last.returned =
                    convertSettingsToUserPreferences(getSettings(last.before), now)
             /\ localStorage = (PREFS_KEY :> last.returned) @@ last.before
        ELSE /\ last.returned = last.before[PREFS_KEY]
             /\ localStorage = last.before
             /\ Events(last.trace) = {"raw:read:preferences"}

\* the preferences migrated from the default settings are returned after the
\* legacy settings were saved with another currency
C20_Witness ==
    /\ last.call.op = "getUserPreferences"
    /\ PREFS_KEY \in DOMAIN last.before
    /\ last.before[PREFS_KEY] = convertSettingsToUserPreferences(defaultSettings, 0)
    /\ SETTINGS_KEY \in DOMAIN last.before
    /\ getSettings(last.before).currency = USD
    /\ last.returned = last.before[PREFS_KEY]
    /\ last.returned.currency = EUR

-----------------------------------------------------------------------------
(* lib/expense-utils.ts: the month view *)

\* String(n).padStart(width, "0")
PadStart(digits, width) ==
    IF Len(digits) >= width THEN digits ELSE Repeat("0", width - Len(digits)) \o digits

\* the calendar day before a day
PreviousDay(date) ==
    IF date.day > 1 THEN [date EXCEPT !.day = date.day - 1]
    ELSE IF date.month > 1
    THEN [year |-> date.year, month |-> date.month - 1,
          day |-> DaysInMonth(date.year, date.month - 1)]
    ELSE [year |-> date.year - 1, month |-> 12, day |-> 31]

\* new Date(year, monthIndex, day): midnight of that day in local time, with
\* monthIndex 12 the January after and day 0 the day before the 1st
NewDate(year, monthIndex, day) ==
    LET first == IF monthIndex = 12
                 THEN [year |-> year + 1, month |-> 1, day |-> 1]
                 ELSE [year |-> year, month |-> monthIndex + 1, day |-> 1]
    IN  IF day = 0 THEN PreviousDay(first) ELSE [first EXCEPT !.day = day]

\* toISOString().split('T')[0] of a local midnight: the UTC day of that
\* instant, which is the day before in a zone ahead of UTC
UtcDay(date, offset) ==
    LET utc == IF offset < 0 THEN PreviousDay(date) ELSE date
    IN  PadStart(Decimal(utc.year), 4) \o <<"-">> \o PadStart(Decimal(utc.month), 2)
            \o <<"-">> \o PadStart(Decimal(utc.day), 2)

getMonthRange(yearMonth, offset) ==
    LET parts == Split(yearMonth, "-")
        year == DigitsToNat(parts[1])
        month == DigitsToNat(parts[2])
    IN  [start |-> UtcDay(NewDate(year, month - 1, 1), offset),
         end |-> UtcDay(NewDate(year, month, 0), offset)]

\* the UTF-16 code unit of a digit or a hyphen
CodeUnit(c) == IF c = "-" THEN 45 ELSE 48 + DigitValue(c)

\* a <= b on strings: by code units, a prefix before its extensions
RECURSIVE StringLeq(_, _)
StringLeq(a, b) ==
    IF a = << >> THEN TRUE
    ELSE IF b = << >> THEN FALSE
    ELSE IF a[1] # b[1] THEN CodeUnit(a[1]) < CodeUnit(b[1])
    ELSE StringLeq(Tail(a), Tail(b))

getExpensesForMonth(expenses, yearMonth, offset) ==
    LET range == getMonthRange(yearMonth, offset)
    IN  SelectSeq(expenses, LAMBDA expense :
            StringLeq(range.start, expense.paidAt) /\ StringLeq(expense.paidAt, range.end))

-----------------------------------------------------------------------------
(* The dashboard's month view over stored expenses with days at the edges   *)
(* of months, in processes of several time zones                           *)

MaxMonthSteps == 2

MaxStoredDays == 2

\* Berlin in winter, UTC, New York in winter
TimezoneInputs == {-60, 0, 300}

PaidAtInputs ==
    {<<"2", "0", "2", "4", "-", "0", "1", "-", "3", "1">>,
     <<"2", "0", "2", "4", "-", "0", "2", "-", "0", "1">>,
     <<"2", "0", "2", "4", "-", "0", "2", "-", "2", "9">>,
     <<"2", "0", "2", "4", "-", "0", "3", "-", "0", "1">>,
     <<"2", "0", "2", "3", "-", "1", "2", "-", "3", "1">>,
     <<"2", "0", "2", "3", "-", "0", "2", "-", "2", "8">>}

MonthInputs ==
    {<<"2", "0", "2", "4", "-", "0", "2">>, <<"2", "0", "2", "3", "-", "1", "2">>,
     <<"2", "0", "2", "4", "-", "0", "1">>}

\* the collections of at most MaxStoredDays expenses that differ in the day
\* only
DayCollections ==
    UNION {[1..n -> PaidAtInputs] : n \in 0..MaxStoredDays}

PaidOn(days) == [i \in 1..Len(days) |-> [StoredLunch EXCEPT !.id = i, !.paidAt = days[i]]]

InitMonth ==
    /\ localStorage \in {EXPENSES_KEY :> PaidOn(days) : days \in DayCollections}
    /\ operationCounts = << >>
    /\ now = 0
    /\ nextId = MaxStoredDays
    /\ currentPrefs = defaultUserPreferences
    /\ last = NoCall
    /\ callLog = << >>
    /\ steps = 0
    /\ hammer = NoHammer
    /\ timezoneOffset \in TimezoneInputs
    /\ InitDialogs
    /\ InitTabs

\* Dashboard.tsx: the expenses of the selected month
GetExpensesForMonth ==
    \E yearMonth \in MonthInputs :
        /\ steps < MaxMonthSteps
        /\ steps' = steps + 1
        /\ last' = [call |-> [op |-> "getExpensesForMonth", yearMonth |-> yearMonth],
                    error |-> "none",
                    returned |-> getExpensesForMonth(getExpenses(localStorage), yearMonth,
                                                     timezoneOffset),
                    before |-> localStorage]
        /\ UNCHANGED <<localStorage, operationCounts, now, nextId, currentPrefs, callLog,
                       hammer>>
        /\ UNCHANGED environment

NextMonth == GetExpensesForMonth

SpecMonth == InitMonth /\ [][NextMonth]_vars

-----------------------------------------------------------------------------
(* Properties of the month view *)

\* C21: getExpensesForMonth returns the stored expenses whose paidAt lies in
\* the calendar month of the key, in their order, in every time zone: the
\* view and the rest partition the collection.
C21_MonthScope ==
    last.call.op = "getExpensesForMonth" =>
        last.returned =
            SelectSeq(getExpenses(last.before),
                      LAMBDA e : SubSeq(e.paidAt, 1, 7) = last.call.yearMonth)

\* ahead of UTC the view of February 2024 leaves out the 29th and takes in
\* 31 January
C21_Witness ==
    /\ last.call.op = "getExpensesForMonth"
    /\ timezoneOffset < 0
    /\ last.call.yearMonth = <<"2", "0", "2", "4", "-", "0", "2">>
    /\ Len(getExpenses(last.before)) = 2
    /\ getExpenses(last.before)[1].paidAt = <<"2", "0", "2", "4", "-", "0", "2", "-", "2", "9">>
    /\ getExpenses(last.before)[2].paidAt = <<"2", "0", "2", "4", "-", "0", "1", "-", "3", "1">>
    /\ last.returned = <<getExpenses(last.before)[2]>>

-----------------------------------------------------------------------------
(* lib/expense-utils.ts: the validation of the expense form *)

\* year, month and day of a date-only string
DayOf(str) ==
    [year |-> DigitsToNat(SubSeq(str, 1, 4)), month |-> DigitsToNat(SubSeq(str, 6, 7)),
     day |-> DigitsToNat(SubSeq(str, 9, 10))]

DayKey(date) == date.year * 10000 + date.month * 100 + date.day

\* new Date(paidAt) > today, with paidAt read as midnight UTC and today the
\* last millisecond of the local day: behind UTC that millisecond lies in the
\* next UTC day, and a date is later only from the day after tomorrow on
InTheFuture(paidAt, today, offset) ==
    LET paidDate == DateParse(paidAt)
    IN  /\ ~paidDate.invalid
        /\ IF offset > 0
           THEN DayKey(PreviousDay(DayOf(paidAt))) > DayKey(DayOf(today))
           ELSE DayKey(DayOf(paidAt)) > DayKey(DayOf(today))

\* the messages pushed, in the order of the checks
validateExpense(expense, today, offset) ==
    LET amount == IF "amountCents" \notin DOMAIN expense \/ expense.amountCents <= 0
                  THEN <<"Amount must be greater than 0">> ELSE << >>
        category == IF ~Truthy(Get(expense, "category"))
                    THEN <<"Category is required">> ELSE << >>
        date == IF Truthy(Get(expense, "paidAt")) /\ InTheFuture(expense.paidAt, today, offset)
                THEN <<"Date cannot be in the future">> ELSE << >>
    IN  amount \o category \o date

-----------------------------------------------------------------------------
(* The expense form's validation over forms that break each rule alone and  *)
(* together                                                                *)

MaxFormSteps == 1

AmountInputs == {0, 1599, AmountMaxCents, AmountMaxCents + 1}

FormCategoryInputs == {<< >>, Food, Repeat("c", CategoryMaxLength + 1)}

NoteInputs == {Undefined, Repeat("n", TextMaxLength + 1)}

PaymentMethodInputs == {Undefined, Repeat("p", PaymentMethodMaxLength + 1)}

\* today, tomorrow, ten years and a day ago
FormDateInputs ==
    {Today, <<"2", "0", "2", "4", "-", "0", "2", "-", "0", "2">>,
     <<"2", "0", "1", "4", "-", "0", "1", "-", "3", "1">>}

\* expenseData of the dialog, and the same without an amount
FormInputs ==
    LET Forms == {[amountCents |-> a, currency |-> EUR, category |-> c, note |-> n,
                   paidAt |-> d, paymentMethod |-> m] :
                      a \in AmountInputs, c \in FormCategoryInputs, n \in NoteInputs,
                      d \in FormDateInputs, m \in PaymentMethodInputs}
    IN  Forms \cup {[k \in DOMAIN f \ {"amountCents"} |-> f[k]] :
                        f \in {g \in Forms : g.amountCents = 0}}

InitForm ==
    /\ localStorage = << >>
    /\ operationCounts = << >>
    /\ now = 0
    /\ nextId = 0
    /\ currentPrefs = defaultUserPreferences
    /\ last = NoCall
    /\ callLog = << >>
    /\ steps = 0
    /\ hammer = NoHammer
    /\ timezoneOffset \in TimezoneInputs
    /\ InitDialogs
    /\ InitTabs

ValidateExpense ==
    \E expense \in FormInputs :
        /\ steps < MaxFormSteps
        /\ steps' = steps + 1
        /\ last' = [call |-> [op |-> "validateExpense", expense |-> expense],
                    error |-> "none",
                    returned |-> validateExpense(expense, Today, timezoneOffset)]
        /\ UNCHANGED <<localStorage, operationCounts, now, nextId, currentPrefs, callLog,
                       hammer>>
        /\ UNCHANGED environment

NextForm == ValidateExpense

SpecForm == InitForm /\ [][NextForm]_vars

-----------------------------------------------------------------------------
(* Properties of the form's validation *)

\* the rules in their order: 1 amount range, 2 category required, 3 category
\* length, 4 note length, 5 payment-method length, 6 date not in the future,
\* 7 date not older than ten years
Rules == 1..7

Violates(expense, rule) ==
    CASE rule = 1 -> \/ "amountCents" \notin DOMAIN expense
                     \/ expense.amountCents <= 0
                     \/ expense.amountCents > AmountMaxCents
      [] rule = 2 -> ~Truthy(Get(expense, "category"))
      [] rule = 3 -> Truthy(Get(expense, "category"))
                     /\ Len(expense.category) > CategoryMaxLength
      [] rule = 4 -> Truthy(Get(expense, "note")) /\ Len(expense.note) > TextMaxLength
      [] rule = 5 -> Truthy(Get(expense, "paymentMethod"))
                     /\ Len(expense.paymentMethod) > PaymentMethodMaxLength
      [] rule = 6 -> DateKey(expense.paidAt) > DateKey(Today)
      [] rule = 7 -> DateKey(expense.paidAt) < DateKey(Today) - 10 * 10000

Violated(expense) == {rule \in Rules : Violates(expense, rule)}

\* C22: validateExpense returns one message for every violated rule and no
\* other: as many messages as violated rules, and none exactly when no rule
\* is violated.
C22_AllViolations ==
    last.call.op = "validateExpense" =>
        Len(last.returned) = Cardinality(Violated(last.call.expense))

\* an amount over the maximum, a category, a note and a payment method that
\* are too long and a date older than ten years pass without a message
C22_Witness ==
    /\ last.call.op = "validateExpense"
    /\ Violated(last.call.expense) = {1, 3, 4, 5, 7}
    /\ last.returned = << >>

-----------------------------------------------------------------------------
(* The import of files whose data rows are good, bad or blank, under the    *)
(* header date,amount,category                                             *)

MaxImportSteps == 1

MaxFileRows == 3

GoodRow == Join(<<Date_2024_01_05, Amount_12_50, Travel>>, ",")

\* a date that is none, no category, an amount of zero, an amount that is no
\* number
BadRows ==
    {Join(<< <<"x">>, Amount_12_50, Travel>>, ","),
     Join(<<Date_2024_01_05, Amount_12_50, << >> >>, ","),
     Join(<<Date_2024_01_05, <<"0">>, Travel>>, ","),
     Join(<<Date_2024_01_05, <<"x">>, Travel>>, ",")}

BlankRow == <<" ">>

RowInputs == {GoodRow, BlankRow} \cup BadRows

RowsInputs == UNION {[1..n -> RowInputs] : n \in 0..MaxFileRows}

FileOf(rows) == Join(<<Join(<<H_date, H_amount, H_category>>, ",")>> \o rows, "\n")

ImportRowsCSV ==
    \E rows \in RowsInputs, allowDuplicates \in BOOLEAN :
        LET call == [op |-> "importCSV", file |-> FileOf(rows), rows |-> rows,
                     allowDuplicates |-> allowDuplicates]
            out == importCSV(State, currentPrefs, FileOf(rows), allowDuplicates)
        IN  /\ steps < MaxImportSteps
            /\ steps' = steps + 1
            /\ localStorage' = out.ls
            /\ operationCounts' = out.counts
            /\ nextId' = out.nextId
            /\ currentPrefs' = [currentPrefs EXCEPT !.categories = out.categories]
            /\ last' = [call |-> call, toast |-> out.toast,
                        description |-> out.description,
                        imported |-> out.imported, skipped |-> out.skipped,
                        trace |-> out.trace,
                        before |-> localStorage, countsBefore |-> operationCounts,
                        categoriesBefore |-> currentPrefs.categories]
            /\ UNCHANGED <<now, callLog, hammer>>
            /\ UNCHANGED environment

NextImport == ImportRowsCSV

SpecImport == Init /\ [][NextImport]_vars

-----------------------------------------------------------------------------
(* Properties of the import's rows *)

RowsThat(rows, Test(_)) == Cardinality({i \in 1..Len(rows) : Test(rows[i])})

\* C23: an import under a valid header completes whatever its rows are:
\* every non-blank row is counted once, as imported when it is good and as
\* skipped when it is bad, and the good rows are stored.
C23_RowsCounted ==
    (last.call.op = "importCSV" /\ "rows" \in DOMAIN last.call) =>
        LET rows == last.call.rows
        IN  /\ last.toast = "Import completed"
            /\ last.imported + last.skipped = RowsThat(rows, LAMBDA r : r # BlankRow)
            /\ last.imported = RowsThat(rows, LAMBDA r : r = GoodRow)
            /\ Len(getExpenses(localStorage))
                   = Len(getExpenses(last.before)) + last.imported

\* a bad row between two good ones: the rows are counted, the save throws
\* and nothing is stored
C23_Witness ==
    /\ last.call.op = "importCSV"
    /\ "rows" \in DOMAIN last.call
    /\ Len(last.call.rows) = MaxFileRows
    /\ last.call.rows[1] = GoodRow
    /\ last.call.rows[2] \in BadRows
    /\ last.call.rows[3] = GoodRow
    /\ last.imported = 2
    /\ last.skipped = 1
    /\ last.toast = "Import failed"
    /\ localStorage = last.before

-----------------------------------------------------------------------------
(* The settings screen: deleting a category *)

\* a variant that removes the category whether expenses name it or not
handleDeleteCategoryUnconditional(ls, prefs, toDelete, id) ==
    [categories |-> SelectSeq(prefs.categories, LAMBDA cat : cat.id # id),
     categoryToDelete |-> toDelete, showDeleteCategoryDialog |-> FALSE]

\* the state the handler leaves: of the two calls that set
\* showDeleteCategoryDialog the last one, false, is the one that counts
handleDeleteCategory(ls, prefs, toDelete, id) ==
    LET index == FindCategory(prefs.categories, id)
        category == prefs.categories[index]
        expenses == getExpenses(ls)
        hasExpenses == \E i \in 1..Len(expenses) : expenses[i].category = category.name
    IN  IF index = 0
        THEN [categories |-> prefs.categories, categoryToDelete |-> toDelete,
              showDeleteCategoryDialog |-> showDeleteCategoryDialog]
        ELSE IF hasExpenses
        THEN [categories |-> prefs.categories, categoryToDelete |-> category,
              showDeleteCategoryDialog |-> FALSE]
        ELSE [categories |-> SelectSeq(prefs.categories, LAMBDA cat : cat.id # id),
              categoryToDelete |-> toDelete, showDeleteCategoryDialog |-> FALSE]

\* Food, Bills, the first category a user adds and an id no category has
DeleteInputs == {-1, -4, 1, -9}

\* the delete button of a category row
DeleteCategory ==
    \E id \in DeleteInputs :
        LET out == handleDeleteCategory(localStorage, currentPrefs, categoryToDelete, id)
        IN  /\ hammer = NoHammer
            /\ steps < MaxSteps
            /\ steps' = steps + 1
            /\ currentPrefs' = [currentPrefs EXCEPT !.categories = out.categories]
            /\ categoryToDelete' = out.categoryToDelete
            /\ showDeleteCategoryDialog' = out.showDeleteCategoryDialog
            /\ last' = [call |-> [op |-> "deleteCategory", id |-> id],
                        before |-> localStorage,
                        categoriesBefore |-> currentPrefs.categories]
            /\ UNCHANGED <<localStorage, operationCounts, now, nextId, callLog, hammer,
                           timezoneOffset, showMergeCategoryDialog, tabs>>

\* The buttons of the delete dialog and of the merge dialog are rendered
\* while showDeleteCategoryDialog and showMergeCategoryDialog hold; the
\* screen's other events are these.
NextCategories == AddExpense \/ AddCategory \/ DeleteCategory

SpecCategories == Init /\ [][NextCategories]_vars

-----------------------------------------------------------------------------
(* Properties of the category list *)

\* the delete button was pressed on a category of the list
DeleteRequested ==
    /\ last.call.op = "deleteCategory"
    /\ FindCategory(last.categoriesBefore, last.call.id) > 0

\* a stored expense names the category the request is for
Referenced ==
    LET name == last.categoriesBefore[FindCategory(last.categoriesBefore, last.call.id)].name
        expenses == getExpenses(last.before)
    IN  \E i \in 1..Len(expenses) : expenses[i].category = name

\* C24: a request to delete a category removes it from the list, and nothing
\* else, exactly when no stored expense has its name as category; otherwise
\* the list stays as it was.
C24_DeleteUnreferenced ==
    DeleteRequested =>
        /\ localStorage = last.before
        /\ currentPrefs.categories =
               IF Referenced THEN last.categoriesBefore
               ELSE SelectSeq(last.categoriesBefore, LAMBDA cat : cat.id # last.call.id)

C24_Witness ==
    /\ DeleteRequested
    /\ Referenced
    /\ currentPrefs.categories = last.categoriesBefore
    /\ FindCategory(currentPrefs.categories, last.call.id) > 0

\* C25: after a request to delete a category that a stored expense names,
\* the merge dialog is open for that category, so that its Merge button can
\* call handleMergeCategory.
C25_MergeDialogShown ==
    (DeleteRequested /\ Referenced) =>
        /\ showMergeCategoryDialog
        /\ categoryToDelete = last.categoriesBefore[FindCategory(last.categoriesBefore,
                                                                 last.call.id)]

\* the request leaves every dialog closed
C25_Witness ==
    /\ DeleteRequested
    /\ Referenced
    /\ categoryToDelete.name = Food
    /\ ~showMergeCategoryDialog
    /\ ~showDeleteCategoryDialog

-----------------------------------------------------------------------------
(* Two tabs on one localStorage.  A call of a tab touches the shared store  *)
(* twice: getItem in getExpenses and setItem in saveExpenses.  Whatever     *)
(* the other tab does in between is not seen by the call: it computes on    *)
(* the collection it has read.                                             *)

MaxTabCalls == 2

TabCallInputs ==
    {[op |-> "addExpense", expense |-> Lunch],
     [op |-> "updateExpense", id |-> 1, updates |-> CategoryOnly],
     [op |-> "deleteExpense", id |-> 1]}

\* the call run on the state st
Apply(call, st) ==
    CASE call.op = "addExpense" -> addExpense(st, call.expense)
      [] call.op = "updateExpense" ->
             updateExpense(st, call.id, call.updates) @@ [nextId |-> st.nextId]
      [] call.op = "deleteExpense" -> deleteExpense(st, call.id) @@ [nextId |-> st.nextId]

\* the tab starts a call and reads the store
TabRead(t) ==
    \E call \in TabCallInputs :
        /\ tabs[t].pc = "idle"
        /\ tabs[t].calls < MaxTabCalls
        /\ tabs' = [tabs EXCEPT ![t] = [@ EXCEPT !.pc = "write", !.calls = @ + 1]
                                           @@ [call |-> call, view |-> localStorage]]
        /\ UNCHANGED <<localStorage, operationCounts, now, nextId, currentPrefs, last,
                       callLog, steps, hammer, timezoneOffset, categoryToDelete,
                       showDeleteCategoryDialog, showMergeCategoryDialog>>

\* the tab finishes its call: it computes on what it has read and, when the
\* call gets as far as setItem, replaces the stored collection
TabWrite(t) ==
    LET tab == tabs[t]
        out == Apply(tab.call, [ls |-> tab.view, counts |-> tab.counts, now |-> now,
                                nextId |-> nextId])
        wrote == "write:expenses" \in {out.trace[i] : i \in 1..Len(out.trace)}
                     /\ out.error = "none"
        done == out.error = "none"
    IN  /\ tab.pc = "write"
        /\ localStorage' = IF wrote
                           THEN (EXPENSES_KEY :> out.ls[EXPENSES_KEY]) @@ localStorage
                           ELSE localStorage
        /\ nextId' = out.nextId
        /\ tabs' = [tabs EXCEPT ![t] =
                       [pc |-> "idle", counts |-> out.counts, calls |-> tab.calls,
                        added |-> IF done /\ tab.call.op = "addExpense"
                                  THEN tab.added \cup {out.returned.id} ELSE tab.added,
                        targeted |-> IF tab.call.op = "addExpense" THEN tab.targeted
                                     ELSE tab.targeted \cup {tab.call.id}]]
        /\ last' = [call |-> tab.call, tab |-> t, error |-> out.error,
                    returned |-> out.returned, trace |-> out.trace,
                    before |-> localStorage, view |-> tab.view]
        /\ steps' = steps + 1
        /\ UNCHANGED <<operationCounts, now, currentPrefs, callLog, hammer, timezoneOffset,
                       categoryToDelete, showDeleteCategoryDialog, showMergeCategoryDialog>>

NextTabs == \E t \in Tabs : TabRead(t) \/ TabWrite(t)

SpecTabs == Init /\ [][NextTabs]_vars

-----------------------------------------------------------------------------
(* Properties of concurrent writers *)

StoredIds == {getExpenses(localStorage)[i].id : i \in 1..Len(getExpenses(localStorage))}

\* the ids the tabs added and no call updated or deleted
Kept == UNION {tabs[t].added : t \in Tabs} \ UNION {tabs[t].targeted : t \in Tabs}

SingleWriter == \E t \in Tabs : tabs[t].calls = 0

-----------------------------------------------------------------------------
(* sanitizeText over short strings of a letter, a space, a tab and an       *)
(* unsafe character, with short maximum lengths                            *)

MaxSanitizeSteps == 1

MaxTextLen == 4

MaxLengthInput == 3

TextChars == {"a", " ", "\t", "<"}

TextInputs == UNION {[1..n -> TextChars] : n \in 0..MaxTextLen}

SanitizeText ==
    \E input \in TextInputs, maxLength \in 0..MaxLengthInput :
        /\ steps < MaxSanitizeSteps
        /\ steps' = steps + 1
        /\ last' = [call |-> [op |-> "sanitizeText", input |-> input,
                              maxLength |-> maxLength],
                    error |-> "none", returned |-> sanitizeText(input, maxLength)]
        /\ UNCHANGED <<localStorage, operationCounts, now, nextId, currentPrefs, callLog,
                       hammer>>
        /\ UNCHANGED environment

NextSanitize == SanitizeText

SpecSanitize == Init /\ [][NextSanitize]_vars

-----------------------------------------------------------------------------
(* Properties of sanitizeText *)

\* C27: the text sanitizeText returns is no longer than the maximum, holds
\* none of the characters < > " ' &, neither starts nor ends with white
\* space and holds no two white-space characters in a row.
C27_Sanitized ==
    last.call.op = "sanitizeText" =>
        LET out == last.returned
        IN  /\ Len(out) <= last.call.maxLength
            /\ \A i \in 1..Len(out) : out[i] \notin XssChars
            /\ out # << >> => (out[1] \notin WhiteSpace /\ out[Len(out)] \notin WhiteSpace)
            /\ \A i \in 1..(Len(out) - 1) :
                   ~(out[i] \in WhiteSpace /\ out[i + 1] \in WhiteSpace)

\* "a a" cut to two characters ends with the space
C27_Witness ==
    /\ last.call.op = "sanitizeText"
    /\ last.call.input = <<"a", " ", "a">>
    /\ last.call.maxLength = 2
    /\ last.returned = <<"a", " ">>

-----------------------------------------------------------------------------
(* Properties of the merge *)

\* handleMergeCategory was called with two categories of the list
Merging ==
    /\ last.call.op = "mergeCategory"
    /\ FindCategory(last.categoriesBefore, last.call.fromId) > 0
    /\ FindCategory(last.categoriesBefore, last.call.toId) > 0

FromName == last.categoriesBefore[FindCategory(last.categoriesBefore, last.call.fromId)].name

ToName == last.categoriesBefore[FindCategory(last.categoriesBefore, last.call.toId)].name

\* every expense named after the first category is now named after the
\* second and is otherwise as it was but for updatedAt, the others are as
\* they were, and the first category is gone from the list
Merged ==
    LET before == getExpenses(last.before)
        after == getExpenses(localStorage)
    IN  /\ Len(after) = Len(before)
        /\ \A i \in 1..Len(before) :
               IF before[i].category = FromName
               THEN after[i] = [before[i] EXCEPT !.category = ToName, !.updatedAt = now]
               ELSE after[i] = before[i]
        /\ \A i \in 1..Len(after) : after[i].category # FromName
        /\ currentPrefs.categories =
               SelectSeq(last.categoriesBefore, LAMBDA cat : cat.id # last.call.fromId)

-----------------------------------------------------------------------------
(* Writes over whatever a browser profile holds *)

NextStale == AddExpense \/ SetBudget

SpecStale == InitRead /\ [][NextStale]_vars

-----------------------------------------------------------------------------
(* Properties of writes over stored blobs *)

Records(blob) == {blob[i] : i \in 1..Len(blob)}

\* C29: after addExpense has returned a record, every record that was in
\* the stored blob before the call is still in it, also when the blob held a
\* record that fails the schema.
C29_KeepsRecords ==
    (last.call.op = "addExpense" /\ last.error = "none"
        /\ EXPENSES_KEY \in DOMAIN last.before) =>
        Records(last.before[EXPENSES_KEY]) \subseteq Records(localStorage[EXPENSES_KEY])

\* the blob held a valid and an invalid record, and holds the new record
\* alone
C29_Witness ==
    /\ last.call.op = "addExpense"
    /\ last.error = "none"
    /\ EXPENSES_KEY \in DOMAIN last.before
    /\ ValidRecord \in Records(last.before[EXPENSES_KEY])
    /\ InvalidRecord \in Records(last.before[EXPENSES_KEY])
    /\ Len(localStorage[EXPENSES_KEY]) = 1
    /\ localStorage[EXPENSES_KEY][1].id = last.returned.id

-----------------------------------------------------------------------------
(* Properties of the settings *)

\* saveSettings was called with settings that carry no categories
SavePartial ==
    /\ last.call.op = "saveSettings"
    /\ "categories" \notin DOMAIN last.call.settings

\* C30: saveSettings with settings that carry no categories succeeds, keeps
\* the stored categories and changes the fields it was given and no other.
C30_PartialSave ==
    SavePartial =>
        /\ last.error = "none"
        /\ SETTINGS_KEY \in DOMAIN localStorage
        /\ localStorage[SETTINGS_KEY] = Spread(getSettings(last.before), last.call.settings)

\* the call is refused with the validation error, and the stored settings,
\* valid and with their categories, stay as they were
C30_Witness ==
    /\ SavePartial
    /\ last.error = "validation"
    /\ localStorage = last.before
    /\ SETTINGS_KEY \in DOMAIN last.before
    /\ last.before[SETTINGS_KEY] = UsdSettings
=============================================================================
